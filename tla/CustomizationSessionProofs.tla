---------------------- MODULE CustomizationSessionProofs ----------------------
(***************************************************************************)
(* For any mods, calls of the extension and session managers: there is one  *)
(* session at a time in a process; a reload leaves alone what the change is  *)
(* not about; and a session that waits has the mods that are configured,    *)
(* unless it will be told of a change.  The last one holds because those    *)
(* who write the configuration order what they write: the time of a change  *)
(* of the settings comes after the settings, and libraries have new names.  *)
(***************************************************************************)
EXTENDS CustomizationSession, FiniteSetTheorems, SequenceTheorems, TLAPS

------------------------------------------------------------------------------
(* What the writes of a running call of the extension are: all of them are  *)
(* about one mod, a new library is the first one, and the settings are      *)
(* followed by their time, or by the end of the key.                        *)
Fields == {"wanted", "library", "settings", "time", "values", "key", "file"}
LastField == writes[Len(writes)].field
Used == 0..calls \union {Before}

WriteOK(i) ==
    LET w == writes[i]
    IN
    /\ w.mod \in Mods /\ w.mod = writes[1].mod /\ w.field \in Fields
    /\ w.field = "wanted" => w.value \in BOOLEAN
    /\ w.field = "library" => w.value = calls /\ i = 1
    /\ w.field = "settings" => w.value \in Used /\ LastField \in {"time", "key"}
    /\ w.field = "values" => LastField = "key"
    /\ w.field \in {"time", "key", "file"} => i = Len(writes)
    /\ w.field = "file" => /\ i = 1 /\ w.value \in Entries
                           /\ w.value.wanted => w.value.present

WritesOK ==
    /\ writes \in Seq({writes[i] : i \in DOMAIN writes})
    /\ writes # <<>> => calls > 0
    /\ \A i \in 1..Len(writes) : WriteOK(i)
    /\ \A m \in Mods : config[m].wanted => config[m].present

(* The reload: where its loops are, and that only a session has mods.       *)
Sorting == {"enum", "apply", "callback"}

StageOK ==
    /\ stage # "idle" => loop \in {"construct", "reload"}
    /\ stage \in {"idle", "enum", "load", "failed"} => cur = {}
    /\ \A m, n \in cur : m = n
    /\ cur \subseteq DOMAIN mods /\ cur \intersect todo = {}
    /\ stage \in {"load", "init"} => \A m \in todo : m \in DOMAIN mods /\ mods[m] = NewMod
    /\ stage = "init" => \A m \in cur : mods[m].library # 0 /\ ~mods[m].loaded
    /\ Answers = {"keep"} => keepOut = {}

LoopOK ==
    /\ loop \in {"none", "construct", "arm", "drain", "release"} => monitor = "none"
    /\ holder = NoManager <=> loop = "none"
    /\ loop \in {"none", "release"} => session = NoManager /\ DOMAIN mods = {}
    /\ loop = "construct" /\ stage \in Sorting \union {"failed"} => DOMAIN mods = {}
    /\ loop = "reload" /\ monitor = "armed" => ~missed

Structure == TypeOK /\ WritesOK /\ StageOK /\ LoopOK

------------------------------------------------------------------------------
(* Nothing was written since the session began to read the configuration:   *)
(* it would have been notified.                                            *)
Quiet ==
    /\ ~missed
    /\ monitor = "armed" \/ (monitor = "none" /\ loop \in {"construct", "arm"})

SameLibrary(m) ==
    /\ m \in DOMAIN mods
    /\ mods[m].library = config[m].library /\ mods[m].time = config[m].time

(* Mirrors, but for the settings.                                           *)
Follows(m) ==
    IF ~config[m].present \/ ~config[m].wanted THEN m \notin DOMAIN mods
    ELSE /\ m \in DOMAIN mods /\ mods[m].library = config[m].library
         /\ config[m].library # 0 => mods[m].time = config[m].time

(* What has been sorted is sorted as it is configured ...                   *)
SortedRight(m) ==
    /\ config[m].present
    /\ config[m].wanted <=> m \in keep \union keepOut \union toLoad
    /\ m \in keep \union keepOut => SameLibrary(m)
    /\ m \in toLoad /\ m \in DOMAIN mods /\ mods[m].loaded /\ Answers = {"keep"}
          => mods[m].library # config[m].library

SortedSoFar(m) ==
    /\ m \in todo \union cur => m \notin keep \union keepOut \union toLoad
    /\ m \in cur => /\ config[m].present /\ config[m].wanted
                    /\ stage = "callback" => SameLibrary(m)
    /\ m \notin todo \union cur => SortedRight(m)

(* ... and what has been loaded is.                                        *)
LoadedSoFar(m) ==
    /\ m \in todo \union cur => config[m].present /\ config[m].wanted
    /\ m \in cur => SameLibrary(m)
    /\ m \notin todo \union cur => Follows(m)

QuietInv(m) ==
    Quiet =>
        /\ loop \in {"arm", "wait"} => Follows(m)
        /\ loop \in {"construct", "reload"} =>
              /\ stage = "idle" => Follows(m)
              /\ stage \in Sorting => gone = 0 /\ SortedSoFar(m)
              /\ stage \in {"load", "init"} => LoadedSoFar(m)

(* The inductive invariant of the reload.                                  *)
ReloadInv == Structure /\ \A m \in Mods : QuietInv(m)

------------------------------------------------------------------------------
(* The first write may be one of a library that nobody knows yet; the time  *)
(* that is going to be written is later than the one there is.              *)
NewEntry(e, m) ==
    /\ e.library \in {0, calls, config[m].library}
    /\ e.time <= clock
    /\ e.library = config[m].library /\ e.library # 0 =>
          \/ e.settings = config[m].settings /\ e.time = config[m].time
          \/ e.time > config[m].time

WriteIsNews(m) ==
    writes # <<>> /\ writes[1].mod = m =>
        /\ writes[1].field \in {"library", "file"} =>
              /\ config[m].library # calls
              /\ m \in DOMAIN mods => mods[m].library # calls
        /\ writes[1].field = "file" => NewEntry(writes[1].value, m)
        /\ LastField = "time" => config[m].time < clock

(* The settings of m may have been written, their time has not been yet.    *)
Unsettled(m) == writes # <<>> /\ writes[1].mod = m /\ LastField \in {"time", "key"}

(* What a mod knows of its settings: as long as it has the library and the  *)
(* time that are configured, it has seen the settings that are, too.        *)
TimeTells(m) ==
    /\ config[m].time <= clock /\ config[m].library \in Used
    /\ m \in DOMAIN mods =>
          /\ mods[m].library \in Used
          /\ mods[m].library = config[m].library /\ mods[m].library # 0
                => mods[m].time <= config[m].time
          /\ mods[m].loaded => mods[m].library # 0
          /\ (/\ mods[m].loaded /\ ~Unsettled(m) /\ ~(stage = "callback" /\ m \in cur)
              /\ mods[m].library = config[m].library /\ mods[m].time = config[m].time)
             => mods[m].seen = config[m].settings

(* The inductive invariant of the settings.                                *)
SettingsInv == Structure /\ \A m \in Mods : WriteIsNews(m) /\ TimeTells(m)

------------------------------------------------------------------------------
(* Sequences: the set of values they are of does not matter here.           *)

(* A sequence is one of its own values.                                    *)
LEMMA OwnValues ==
    ASSUME NEW S, NEW s \in Seq(S) PROVE s \in Seq({s[i] : i \in DOMAIN s})
<1>1. Len(s) \in Nat /\ s \in [1..Len(s) -> S] /\ DOMAIN s = 1..Len(s)
  BY LenProperties
<1>2. s \in [1..Len(s) -> {s[i] : i \in DOMAIN s}]
  BY <1>1
<1>3. QED
  BY <1>1, <1>2, SeqDef

(* The tail of a sequence has the values that are left, moved by one.      *)
LEMMA TailOf ==
    ASSUME NEW S, NEW s \in Seq(S), s # <<>>
    PROVE  /\ Tail(s) \in Seq({Tail(s)[i] : i \in DOMAIN Tail(s)})
           /\ Len(s) \in Nat \ {0} /\ Len(Tail(s)) = Len(s) - 1
           /\ \A i \in 1..Len(Tail(s)) : Tail(s)[i] = s[i + 1]
           /\ Tail(s) = <<>> <=> Len(s) = 1
           /\ Head(s) = s[1]
<1>1. /\ Tail(s) \in Seq(S) /\ Len(Tail(s)) = Len(s) - 1 /\ Len(s) \in Nat \ {0}
      /\ \A i \in 1..Len(Tail(s)) : Tail(s)[i] = s[i + 1] /\ Head(s) = s[1]
  BY HeadTailProperties, EmptySeq
<1>2. Tail(s) \in Seq({Tail(s)[i] : i \in DOMAIN Tail(s)})
  <2>1. \A t \in Seq(S) : t \in Seq({t[i] : i \in DOMAIN t})
    BY OwnValues
  <2>2. QED
    BY <1>1, <2>1
<1>3. Tail(s) = <<>> <=> Len(s) = 1
  BY <1>1, EmptySeq, SMTT(30)
<1>4. Head(s) = s[1]
  OBVIOUS
<1>5. QED
  BY <1>1, <1>2, <1>3, <1>4

(* The writes that are left are counted from 1.                            *)
LEMMA WritesLen ==
    ASSUME WritesOK
    PROVE  /\ Len(writes) \in Nat /\ DOMAIN writes = 1..Len(writes)
           /\ writes = <<>> <=> Len(writes) = 0
<1>1. writes \in Seq({writes[i] : i \in DOMAIN writes})
  BY DEF WritesOK
<1>2. QED
  BY <1>1, LenProperties, EmptySeq

(* The literal sequences of the calls.                                      *)
LEMMA Literal1 ==
    ASSUME NEW a, NEW s, s = <<a>>
    PROVE  /\ s \in Seq({s[i] : i \in DOMAIN s}) /\ Len(s) = 1 /\ s # <<>>
           /\ s[1] = a
<1>1. s \in Seq({a})
  OBVIOUS
<1>2. QED
  BY <1>1, OwnValues

(* A sequence of two values has these two values.                          *)
LEMMA Literal2 ==
    ASSUME NEW a, NEW b, NEW s, s = <<a, b>>
    PROVE  /\ s \in Seq({s[i] : i \in DOMAIN s}) /\ Len(s) = 2 /\ s # <<>>
           /\ s[1] = a /\ s[2] = b
<1>1. s \in Seq({a, b})
  OBVIOUS
<1>2. QED
  BY <1>1, OwnValues

(* A sequence of three values has these three values.                      *)
LEMMA Literal3 ==
    ASSUME NEW a, NEW b, NEW c, NEW s, s = <<a, b, c>>
    PROVE  /\ s \in Seq({s[i] : i \in DOMAIN s}) /\ Len(s) = 3 /\ s # <<>>
           /\ s[1] = a /\ s[2] = b /\ s[3] = c
<1>1. s \in Seq({a, b, c})
  OBVIOUS
<1>2. QED
  BY <1>1, OwnValues

(* Two values and three values are a sequence of five.                     *)
LEMMA Literal5 ==
    ASSUME NEW a, NEW b, NEW c, NEW d, NEW e, NEW s, s = <<a, b>> \o <<c, d, e>>
    PROVE  /\ s \in Seq({s[i] : i \in DOMAIN s}) /\ Len(s) = 5 /\ s # <<>>
           /\ s[1] = a /\ s[2] = b /\ s[3] = c /\ s[4] = d /\ s[5] = e
<1>1. <<a, b>> \in Seq({a, b, c, d, e}) /\ Len(<<a, b>>) = 2
  OBVIOUS
<1>2. <<c, d, e>> \in Seq({a, b, c, d, e}) /\ Len(<<c, d, e>>) = 3
  OBVIOUS
<1>3. /\ s \in Seq({a, b, c, d, e}) /\ Len(s) = 5
      /\ \A i \in 1..5 : s[i] = IF i <= 2 THEN <<a, b>>[i] ELSE <<c, d, e>>[i - 2]
  BY <1>1, <1>2, ConcatProperties
<1>4. s[1] = a /\ s[2] = b /\ s[3] = c /\ s[4] = d /\ s[5] = e
  BY <1>3
<1>5. s # <<>>
  BY <1>3, EmptySeq
<1>6. QED
  BY <1>3, <1>4, <1>5, OwnValues

------------------------------------------------------------------------------
(* The calls of the extension.                                             *)

(* What the writes of a call tell of the entry they make, before it is known *)
(* that the clock goes on between two changes of the settings.              *)
NewWrites(m) ==
    LET v == writes'[1].value
    IN
    /\ writes' # <<>> /\ writes'[1].mod = m
    /\ LastField' = "time" => NewSecond(m)
    /\ writes'[1].field = "file" =>
          /\ v.library \in {0, calls', config[m].library}
          /\ v.time \in {0, config[m].time, clock}
          /\ v.library = config[m].library /\ v.library # 0 =>
                \/ v.settings = config[m].settings /\ v.time = config[m].time
                \/ v.time = clock /\ NewSecond(m)

Called(m) ==
    /\ UNCHANGED <<config, clock, monitor, missed>>
    /\ calls' = calls + 1 /\ calls < MaxCalls /\ writes = <<>>
    /\ WritesOK'
    /\ NewWrites(m)

(* The types of the configuration, one by one.                             *)
LEMMA ConfigTypes ==
    ASSUME TypeOK
    PROVE  /\ config \in [Mods -> Entries] /\ \A m \in Mods : config[m] \in Entries
           /\ calls \in Nat /\ calls \in 0..MaxCalls /\ MaxCalls \in Nat
           /\ clock \in Nat /\ clock \in 1..MaxTime /\ MaxTime \in Nat
           /\ monitor \in Monitors /\ missed \in BOOLEAN
           /\ Before = MaxCalls + 1 /\ Names = 0..Before
  BY ModConfigAssumption DEF TypeOK, ConfigTypeOK, Before, Names

(* An .ini file is written at once.                                        *)
LEMMA FileCall ==
    ASSUME Structure, NEW m \in Mods, NEW e \in Entries, Call(<<Write(m, "file", e)>>),
           e.wanted => e.present,
           e.library \in {0, calls', config[m].library},
           e.time \in {0, config[m].time, clock},
           e.library = config[m].library /\ e.library # 0 =>
                \/ e.settings = config[m].settings /\ e.time = config[m].time
                \/ e.time = clock /\ NewSecond(m)
    PROVE  Called(m)
<1> DEFINE w == Write(m, "file", e)
<1>1. w.mod = m /\ w.field = "file" /\ w.value = e
  BY DEF Write
<1>2. /\ UNCHANGED <<config, clock, monitor, missed>>
      /\ calls' = calls + 1 /\ calls < MaxCalls /\ writes = <<>> /\ writes' = <<w>>
      /\ calls \in Nat
  BY ConfigTypes DEF Call, Structure
<1> HIDE DEF w
<1>3. /\ writes' \in Seq({writes'[i] : i \in DOMAIN writes'}) /\ Len(writes') = 1
      /\ writes' # <<>> /\ writes'[1] = w
  BY <1>2, Literal1
<1>4. WritesOK'
  <2>1. \A i \in 1..Len(writes') : WriteOK(i)'
    BY <1>1, <1>3 DEF WriteOK, Fields
  <2>2. QED
    BY <1>2, <1>3, <2>1 DEF WritesOK, Structure
<1>5. NewWrites(m)
  BY <1>1, <1>3 DEF NewWrites, LastField
<1>6. QED
  BY <1>2, <1>4, <1>5 DEF Called

(* enableMod writes one value, or the file.                                *)
LEMMA EnableModCalls ==
    ASSUME Structure, NEW m \in Mods, NEW on \in BOOLEAN, EnableMod(m, on)
    PROVE  Called(m)
<1> DEFINE e == [config[m] EXCEPT !.wanted = on]
           w == Write(m, "wanted", on)
<1>1. config[m] \in Entries /\ config[m].present
  BY ConfigTypes DEF Structure, EnableMod
<1>2. /\ e \in Entries /\ e.present /\ e.library = config[m].library
      /\ e.time = config[m].time /\ e.settings = config[m].settings
  BY <1>1 DEF Entries
<1>3. CASE Storage # "registry"
  <2>1. Call(<<Write(m, "file", e)>>)
    BY <1>3 DEF EnableMod, Writes
  <2> HIDE DEF e
  <2>2. QED
    BY <1>2, <2>1, FileCall
<1>4. CASE Storage = "registry"
  <2>1. w.mod = m /\ w.field = "wanted" /\ w.value = on
    BY DEF Write
  <2>2. /\ UNCHANGED <<config, clock, monitor, missed>>
        /\ calls' = calls + 1 /\ calls < MaxCalls /\ writes = <<>> /\ writes' = <<w>>
        /\ calls \in Nat
    BY <1>4, ConfigTypes DEF Call, Structure, EnableMod, Writes
  <2> HIDE DEF w
  <2>3. /\ writes' \in Seq({writes'[i] : i \in DOMAIN writes'}) /\ Len(writes') = 1
        /\ writes' # <<>> /\ writes'[1] = w
    BY <2>2, Literal1
  <2>4. \A i \in 1..Len(writes') : WriteOK(i)'
    BY <2>1, <2>3 DEF WriteOK, Fields
  <2>5. WritesOK'
    BY <2>2, <2>3, <2>4 DEF WritesOK, Structure
  <2>6. NewWrites(m)
    BY <2>1, <2>3 DEF NewWrites, LastField
  <2>7. QED
    BY <2>2, <2>5, <2>6 DEF Called
<1>5. QED
  BY <1>3, <1>4

(* setModSettings writes the settings and then their time, or the file     *)
(* with both; the time is later than the one before.                       *)
LEMMA SetModSettingsCalls ==
    ASSUME Structure, NEW m \in Mods, SetModSettings(m)
    PROVE  Called(m)
<1> DEFINE e == [config[m] EXCEPT !.settings = calls + 1, !.time = clock]
           a == Write(m, "settings", 0)
           b == Write(m, "settings", calls + 1)
           c == Write(m, "time", 0)
<1>0. /\ calls \in Nat /\ clock \in 0..MaxTime /\ calls < MaxCalls /\ MaxCalls \in Nat
      /\ calls + 1 \in Names
  BY ConfigTypes DEF Structure, SetModSettings, Call
<1>1. config[m] \in Entries /\ config[m].present /\ NewSecond(m)
  BY ConfigTypes DEF Structure, SetModSettings
<1>2. /\ e \in Entries /\ e.present /\ e.library = config[m].library
      /\ e.time = clock
  BY <1>0, <1>1 DEF Entries
<1>3. CASE Storage # "registry"
  <2>1. Call(<<Write(m, "file", e)>>)
    BY <1>3 DEF SetModSettings, Writes
  <2> HIDE DEF e
  <2>2. QED
    BY <1>1, <1>2, <2>1, FileCall
<1>4. CASE Storage = "registry"
  <2>1. /\ a.mod = m /\ a.field = "settings" /\ a.value = 0
        /\ b.mod = m /\ b.field = "settings" /\ b.value = calls + 1
        /\ c.mod = m /\ c.field = "time"
    BY DEF Write
  <2>2. /\ UNCHANGED <<config, clock, monitor, missed>>
        /\ calls' = calls + 1 /\ writes = <<>> /\ writes' = <<a, b, c>>
    BY <1>4 DEF Call, SetModSettings, SettingsWrites, Writes
  <2> HIDE DEF a, b, c
  <2>3. /\ writes' \in Seq({writes'[i] : i \in DOMAIN writes'}) /\ Len(writes') = 3
        /\ writes' # <<>> /\ writes'[1] = a /\ writes'[2] = b /\ writes'[3] = c
    BY <2>2, Literal3
  <2>4. LastField' = "time" /\ 0 \in Used' /\ calls + 1 \in Used'
    BY <1>0, <2>1, <2>2, <2>3 DEF LastField, Used
  <2>5. \A i \in {1, 2, 3} : WriteOK(i)'
    BY <2>1, <2>3, <2>4 DEF WriteOK, Fields
  <2>6. \A i \in 1..Len(writes') : WriteOK(i)'
    BY <2>3, <2>5
  <2>7. WritesOK'
    BY <1>0, <2>2, <2>3, <2>6 DEF WritesOK, Structure
  <2>8. NewWrites(m)
    BY <1>1, <2>1, <2>3, <2>4 DEF NewWrites
  <2>9. QED
    BY <1>0, <2>2, <2>7, <2>8 DEF Called
<1>5. QED
  BY <1>3, <1>4

(* deleteMod removes the settings, then the values, then the key.          *)
LEMMA DeleteModCalls ==
    ASSUME Structure, NEW m \in Mods, DeleteMod(m)
    PROVE  Called(m)
<1> DEFINE a == Write(m, "settings", 0)
           b == Write(m, "values", 0)
           c == Write(m, "key", 0)
<1>0. calls \in Nat /\ calls < MaxCalls /\ MaxTime \in Nat /\ MaxCalls \in Nat
  BY ConfigTypes DEF Structure, DeleteMod, Call
<1>2. /\ NoEntry \in Entries /\ ~NoEntry.wanted /\ NoEntry.library = 0
      /\ NoEntry.time = 0
  BY <1>0 DEF Entries, NoEntry, Names, Before
<1>3. CASE Storage # "registry"
  <2>1. Call(<<Write(m, "file", NoEntry)>>)
    BY <1>3 DEF DeleteMod, Writes
  <2>2. QED
    BY <1>2, <2>1, FileCall
<1>4. CASE Storage = "registry"
  <2>1. /\ a.mod = m /\ a.field = "settings" /\ a.value = 0
        /\ b.mod = m /\ b.field = "values"
        /\ c.mod = m /\ c.field = "key"
    BY DEF Write
  <2>2. /\ UNCHANGED <<config, clock, monitor, missed>>
        /\ calls' = calls + 1 /\ writes = <<>> /\ writes' = <<a, b, c>>
    BY <1>4 DEF Call, DeleteMod, Writes
  <2> HIDE DEF a, b, c
  <2>3. /\ writes' \in Seq({writes'[i] : i \in DOMAIN writes'}) /\ Len(writes') = 3
        /\ writes' # <<>> /\ writes'[1] = a /\ writes'[2] = b /\ writes'[3] = c
    BY <2>2, Literal3
  <2>4. LastField' = "key" /\ 0 \in Used'
    BY <1>0, <2>1, <2>2, <2>3 DEF LastField, Used
  <2>5. \A i \in {1, 2, 3} : WriteOK(i)'
    BY <2>1, <2>3, <2>4 DEF WriteOK, Fields
  <2>6. \A i \in 1..Len(writes') : WriteOK(i)'
    BY <2>3, <2>5
  <2>7. WritesOK'
    BY <1>0, <2>2, <2>3, <2>6 DEF WritesOK, Structure
  <2>8. NewWrites(m)
    BY <2>1, <2>3, <2>4 DEF NewWrites
  <2>9. QED
    BY <1>0, <2>2, <2>7, <2>8 DEF Called
<1>5. QED
  BY <1>3, <1>4

(* setModConfig writes a library nobody knows before it writes anything    *)
(* else.                                                                   *)
LEMMA SetModConfigCalls ==
    ASSUME Structure, NEW m \in Mods, NEW on \in BOOLEAN, NEW merged \in BOOLEAN,
           SetModConfig(m, on, merged)
    PROVE  Called(m)
<1> DEFINE e == [config[m] EXCEPT !.present = TRUE, !.library = calls + 1, !.wanted = on]
           s == [e EXCEPT !.settings = calls + 1, !.time = clock]
           a == Write(m, "library", calls + 1)
           b == Write(m, "wanted", on)
           c == Write(m, "settings", 0)
           d == Write(m, "settings", calls + 1)
           f == Write(m, "time", 0)
<1>0. /\ calls \in Nat /\ clock \in 0..MaxTime /\ calls < MaxCalls /\ MaxCalls \in Nat
      /\ calls + 1 \in Names
  <2>1. calls < MaxCalls
    BY DEF SetModConfig, Call
  <2>2. QED
    BY <2>1, ConfigTypes DEF Structure
<1>1. config[m] \in Entries /\ NewSecond(m)
  BY ConfigTypes DEF Structure, SetModConfig
<1>2. /\ e \in Entries /\ e.present /\ e.library = calls + 1 /\ e.time = config[m].time
      /\ s \in Entries /\ s.present /\ s.library = calls + 1 /\ s.time = clock
      /\ e.settings = config[m].settings
  BY <1>0, <1>1 DEF Entries
<1>3. /\ a.mod = m /\ a.field = "library" /\ a.value = calls + 1
      /\ b.mod = m /\ b.field = "wanted" /\ b.value = on
      /\ c.mod = m /\ c.field = "settings" /\ c.value = 0
      /\ d.mod = m /\ d.field = "settings" /\ d.value = calls + 1
      /\ f.mod = m /\ f.field = "time"
  BY DEF Write
<1>4. CASE Storage # "registry"
  <2>1. Call(<<Write(m, "file", s)>>) \/ Call(<<Write(m, "file", e)>>)
    BY <1>4 DEF SetModConfig, Writes
  <2>2. calls' = calls + 1
    BY DEF SetModConfig, Call
  <2> HIDE DEF e, s
  <2>3. CASE Call(<<Write(m, "file", s)>>)
    BY <1>1, <1>2, <2>2, <2>3, FileCall
  <2>4. CASE Call(<<Write(m, "file", e)>>)
    BY <1>1, <1>2, <2>2, <2>4, FileCall
  <2>5. QED
    BY <2>1, <2>3, <2>4
<1>5. CASE Storage = "registry"
  <2>1. /\ UNCHANGED <<config, clock, monitor, missed>>
        /\ calls' = calls + 1 /\ writes = <<>>
    BY DEF SetModConfig, Call
  <2>2. writes' = <<a, b>> \/ writes' = <<a, b>> \o <<c, d, f>>
    BY <1>5 DEF SetModConfig, Call, Writes, SettingsWrites
  <2> HIDE DEF a, b, c, d, f
  <2>3. CASE writes' = <<a, b>>
    <3>1. /\ writes' \in Seq({writes'[i] : i \in DOMAIN writes'}) /\ Len(writes') = 2
          /\ writes' # <<>> /\ writes'[1] = a /\ writes'[2] = b
      BY <2>3, Literal2
    <3>2. LastField' = "wanted"
      BY <1>3, <3>1 DEF LastField
    <3>3. \A i \in {1, 2} : WriteOK(i)'
      BY <1>3, <2>1, <3>1, <3>2 DEF WriteOK, Fields
    <3>4. \A i \in 1..Len(writes') : WriteOK(i)'
      BY <3>1, <3>3
    <3>5. WritesOK'
      BY <1>0, <2>1, <3>1, <3>4 DEF WritesOK, Structure
    <3>6. NewWrites(m)
      BY <1>3, <3>1, <3>2 DEF NewWrites
    <3>7. QED
      BY <1>0, <2>1, <3>5, <3>6 DEF Called
  <2>4. CASE writes' = <<a, b>> \o <<c, d, f>>
    <3>1. /\ writes' \in Seq({writes'[i] : i \in DOMAIN writes'}) /\ Len(writes') = 5
          /\ writes' # <<>> /\ writes'[1] = a /\ writes'[2] = b /\ writes'[3] = c
          /\ writes'[4] = d /\ writes'[5] = f
      BY <2>4, Literal5
    <3>2. LastField' = "time" /\ 0 \in Used' /\ calls + 1 \in Used'
      BY <1>0, <1>3, <2>1, <3>1 DEF LastField, Used
    <3>3. \A i \in {1, 2, 3, 4, 5} : WriteOK(i)'
      BY <1>3, <2>1, <3>1, <3>2 DEF WriteOK, Fields
    <3>4. \A i \in 1..Len(writes') : WriteOK(i)'
      BY <3>1, <3>3
    <3>5. WritesOK'
      BY <1>0, <2>1, <3>1, <3>4 DEF WritesOK, Structure
    <3>6. NewWrites(m)
      BY <1>1, <1>3, <3>1, <3>2 DEF NewWrites
    <3>7. QED
      BY <1>0, <2>1, <3>5, <3>6 DEF Called
  <2>5. QED
    BY <2>2, <2>3, <2>4
<1>6. QED
  BY <1>4, <1>5

------------------------------------------------------------------------------
(* A write, as it shows in the entry of its mod.                           *)

(* The fields that the entry of a mod has after the write w.                *)
Shows(e, w, n) ==
    /\ n \in Entries /\ n.time \in 0..MaxTime
    /\ n.wanted => n.present
    /\ w.field = "file" => n = w.value
    /\ w.field = "wanted" => n.library = e.library /\ n.settings = e.settings /\ n.time = e.time
    /\ w.field = "library" => n.library = w.value /\ n.settings = e.settings /\ n.time = e.time
    /\ w.field = "settings" => n.library = e.library /\ n.time = e.time
    /\ w.field \in {"values", "key"} => n.library = 0 /\ n.time = 0
    /\ w.field = "time" => n.library = e.library /\ n.settings = e.settings /\ n.time = clock

(* What a write changes of an entry, by the field it writes.               *)
LEMMA WriteShows ==
    ASSUME Structure, writes # <<>>, NEW w, w = writes[1],
           NEW e, e = config[w.mod], NEW n, n = Written(e, w)
    PROVE  w.mod \in Mods /\ Shows(e, w, n)
<1>1. 1 \in 1..Len(writes)
  BY WritesLen DEF Structure
<1>2. WriteOK(1) /\ calls \in Nat /\ calls > 0
  BY <1>1, ConfigTypes DEF Structure, WritesOK
<1>3. /\ w.mod \in Mods /\ e \in Entries /\ (e.wanted => e.present)
      /\ calls \in Names /\ clock \in 0..MaxTime /\ Used \subseteq Names
      /\ MaxTime \in Nat /\ 0 \in Names
  BY <1>2, ConfigTypes DEF Structure, WriteOK, Used, WritesOK
<1>4. /\ NoEntry \in Entries /\ NoEntry.library = 0 /\ NoEntry.time = 0 /\ ~NoEntry.wanted
  BY <1>3 DEF NoEntry, Entries
<1>5. CASE w.field = "file"
  <2>1. n = w.value /\ n \in Entries /\ (n.wanted => n.present)
    BY <1>2, <1>5 DEF WriteOK, Written
  <2>2. n.time \in 0..MaxTime
    BY <2>1 DEF Entries
  <2>3. QED
    BY <1>3, <1>5, <2>1, <2>2 DEF Shows
<1>6. CASE w.field \in {"key", "values"}
  <2>1. n = NoEntry \/ n = [NoEntry EXCEPT !.present = TRUE]
    BY <1>6 DEF Written
  <2>2. n \in Entries /\ n.library = 0 /\ n.time = 0 /\ ~n.wanted
    BY <1>4, <2>1 DEF Entries
  <2>3. QED
    BY <1>3, <1>6, <2>2 DEF Shows
<1>7. CASE w.field = "time"
  <2>1. n = [e EXCEPT !.present = TRUE, !.time = clock]
    BY <1>7 DEF Written
  <2>2. /\ n \in Entries /\ n.present /\ n.library = e.library /\ n.settings = e.settings
        /\ n.time = clock
    BY <1>3, <2>1 DEF Entries
  <2>3. QED
    BY <1>3, <1>7, <2>2 DEF Shows
<1>8. CASE w.field = "wanted"
  <2>1. w.value \in BOOLEAN /\ n = [e EXCEPT !.present = TRUE, !.wanted = w.value]
    BY <1>2, <1>8 DEF WriteOK, Written
  <2>2. /\ n \in Entries /\ n.present /\ n.library = e.library /\ n.settings = e.settings
        /\ n.time = e.time /\ e.time \in 0..MaxTime
    BY <1>3, <2>1 DEF Entries
  <2>3. QED
    BY <1>3, <1>8, <2>2 DEF Shows
<1>9. CASE w.field = "library"
  <2>1. w.value \in Names /\ n = [e EXCEPT !.present = TRUE, !.library = w.value]
    BY <1>2, <1>3, <1>9 DEF WriteOK, Written
  <2>2. /\ n \in Entries /\ n.present /\ n.library = w.value /\ n.settings = e.settings
        /\ n.time = e.time /\ e.time \in 0..MaxTime
    BY <1>3, <2>1 DEF Entries
  <2>3. QED
    BY <1>3, <1>9, <2>2 DEF Shows
<1>10. CASE w.field = "settings"
  <2>1. w.value \in Names /\ n = [e EXCEPT !.present = TRUE, !.settings = w.value]
    BY <1>2, <1>3, <1>10 DEF WriteOK, Written
  <2>2. /\ n \in Entries /\ n.present /\ n.library = e.library /\ n.time = e.time
        /\ e.time \in 0..MaxTime
    BY <1>3, <2>1 DEF Entries
  <2>3. QED
    BY <1>3, <1>10, <2>2 DEF Shows
<1>11. QED
  BY <1>2, <1>3, <1>5, <1>6, <1>7, <1>8, <1>9, <1>10 DEF WriteOK, Fields

(* What a write changes: the entry of its mod, and the session is told.     *)
Wrote(m) ==
    /\ writes # <<>> /\ m = writes[1].mod /\ m \in Mods
    /\ config' \in [Mods -> Entries]
    /\ Shows(config[m], writes[1], config'[m])
    /\ \A n \in Mods \ {m} : config'[n] = config[n]
    /\ UNCHANGED <<calls, clock>> /\ Notify
    /\ WritesOK'
    /\ Len(writes) \in Nat \ {0} /\ Len(writes') = Len(writes) - 1
    /\ writes' = <<>> <=> Len(writes) = 1
    /\ writes' # <<>> => /\ LastField' = LastField /\ writes'[1].mod = m
                         /\ writes'[1].field \notin {"library", "file"}

(* A step of the extension performs the first write, and the writes that   *)
(* are left are in order still.                                            *)
LEMMA PerformWriteWrote ==
    ASSUME Structure, PerformWrite PROVE Wrote(writes[1].mod)
<1> DEFINE m == writes[1].mod
<1>1. /\ writes # <<>> /\ writes' = Tail(writes) /\ UNCHANGED <<calls, clock>> /\ Notify
      /\ config' = [config EXCEPT ![Head(writes).mod] = Written(@, Head(writes))]
  BY DEF PerformWrite
<1>2. writes \in Seq({writes[i] : i \in DOMAIN writes})
  BY DEF Structure, WritesOK
<1>3. /\ writes' \in Seq({writes'[i] : i \in DOMAIN writes'})
      /\ Len(writes) \in Nat \ {0} /\ Len(writes') = Len(writes) - 1
      /\ \A i \in 1..Len(writes') : writes'[i] = writes[i + 1]
      /\ writes' = <<>> <=> Len(writes) = 1
      /\ Head(writes) = writes[1]
  <2>1. writes # <<>> /\ writes' = Tail(writes)
    BY <1>1
  <2>2. /\ Tail(writes) \in Seq({Tail(writes)[i] : i \in DOMAIN Tail(writes)})
        /\ Len(writes) \in Nat \ {0} /\ Len(Tail(writes)) = Len(writes) - 1
        /\ \A i \in 1..Len(Tail(writes)) : Tail(writes)[i] = writes[i + 1]
        /\ Tail(writes) = <<>> <=> Len(writes) = 1
        /\ Head(writes) = writes[1]
    BY <1>2, <2>1, TailOf, Zenon
  <2>3. QED
    BY <2>1, <2>2, Zenon
<1>4. m \in Mods /\ Shows(config[m], writes[1], Written(config[m], writes[1]))
  BY <1>1, WriteShows
<1>5. config \in [Mods -> Entries]
  BY ConfigTypes DEF Structure
<1>6. /\ config'[m] = Written(config[m], writes[1])
      /\ \A n \in Mods \ {m} : config'[n] = config[n]
      /\ config' \in [Mods -> Entries]
  <2>1. config' = [config EXCEPT ![m] = Written(config[m], writes[1])]
    BY <1>1, <1>3
  <2>2. Written(config[m], writes[1]) \in Entries
    BY <1>4 DEF Shows
  <2>3. QED
    BY <1>4, <1>5, <2>1, <2>2
<1>7. \A i \in 1..Len(writes) : WriteOK(i)
  BY DEF Structure, WritesOK
<1>8. writes' # <<>> => /\ LastField' = LastField /\ writes'[1].mod = m
                        /\ writes'[1].field \notin {"library", "file"}
  <2>1. SUFFICES ASSUME writes' # <<>>
                 PROVE  /\ LastField' = LastField /\ writes'[1].mod = m
                        /\ writes'[1].field \notin {"library", "file"}
    OBVIOUS
  <2>2. /\ 1 \in 1..Len(writes') /\ Len(writes') \in 1..Len(writes')
        /\ 2 \in 1..Len(writes) /\ Len(writes') + 1 = Len(writes)
    BY <1>3, <2>1
  <2>3. writes'[1] = writes[1 + 1] /\ writes'[Len(writes')] = writes[Len(writes') + 1]
    BY <1>3, <2>2
  <2>4. WriteOK(2)
    BY <1>7, <2>2
  <2>5. QED
    BY <2>2, <2>3, <2>4 DEF WriteOK, LastField
<1>9. WritesOK'
  <2>1. ASSUME NEW i \in 1..Len(writes') PROVE WriteOK(i)'
    <3>1. /\ i + 1 \in 1..Len(writes) /\ writes'[i] = writes[i + 1] /\ writes' # <<>>
          /\ 1 \in 1..Len(writes') /\ i \in Nat /\ i + 1 # 1
      BY <1>3
    <3>2. WriteOK(i + 1) /\ WriteOK(2) /\ writes'[1] = writes[2]
      BY <1>3, <1>7, <3>1
    <3>3. i + 1 = Len(writes) => i = Len(writes')
      BY <1>3, <3>1
    <3>4. QED
      BY <1>1, <1>8, <3>1, <3>2, <3>3 DEF WriteOK, Used
  <2>2. \A n \in Mods : config'[n].wanted => config'[n].present
    BY <1>4, <1>6 DEF Shows, Structure, WritesOK
  <2>3. QED
    BY <1>1, <1>3, <2>1, <2>2 DEF WritesOK, Structure
<1>10. QED
  BY <1>1, <1>3, <1>4, <1>6, <1>8, <1>9 DEF Wrote

------------------------------------------------------------------------------
(* What the engine reads may create a key, of which the session is told.    *)

NotTold == config' = config /\ monitor' = monitor /\ missed' = missed
Told == monitor' # "armed" /\ (monitor' = "none" => missed')

Read ==
    /\ UNCHANGED <<writes, calls, clock>>
    /\ config' \in [Mods -> Entries] /\ monitor' \in Monitors /\ missed' \in BOOLEAN
    /\ \A n \in Mods : /\ config'[n].wanted = config[n].wanted
                       /\ config'[n].library = config[n].library
                       /\ config'[n].settings = config[n].settings
                       /\ config'[n].time = config[n].time
    /\ monitor = "none" => monitor' = "none"
    /\ NotTold \/ Told
    /\ WritesOK'

(* The writes stay in order when the reading of a mod changes its entry.   *)
LEMMA SameWrites ==
    ASSUME WritesOK, UNCHANGED <<writes, calls>>,
           \A n \in Mods : config'[n].wanted => config'[n].present
    PROVE  WritesOK'
<1>1. \A i \in 1..Len(writes) : WriteOK(i)'
  BY DEF WritesOK, WriteOK, LastField, Used
<1>2. QED
  BY <1>1 DEF WritesOK

(* Reading the configuration of a mod may create its key, which is a       *)
(* change others are notified of, and changes no value.                    *)
LEMMA ReadConfigReads ==
    ASSUME Structure, NEW m \in Mods, ReadConfig(m) PROVE Read
<1>1. /\ config \in [Mods -> Entries] /\ config[m] \in Entries
      /\ monitor \in Monitors /\ missed \in BOOLEAN
      /\ \A n \in Mods : config[n].wanted => config[n].present
  BY ConfigTypes DEF Structure, WritesOK
<1>2. WritesOK
  BY DEF Structure
<1>3. CASE UNCHANGED configVars
  <2>1. UNCHANGED <<config, writes, calls, clock, monitor, missed>>
    BY <1>3 DEF configVars, storeVars
  <2>2. WritesOK'
    BY <1>1, <1>2, <2>1, SameWrites
  <2>3. QED
    BY <1>1, <2>1, <2>2 DEF Read, NotTold
<1>4. CASE /\ config' = [config EXCEPT ![m].present = TRUE]
           /\ Notify
           /\ UNCHANGED <<writes, calls, clock>>
  <2>1. [config[m] EXCEPT !.present = TRUE] \in Entries
    BY <1>1 DEF Entries
  <2>2. /\ config' \in [Mods -> Entries]
        /\ config'[m] = [config[m] EXCEPT !.present = TRUE]
        /\ \A n \in Mods \ {m} : config'[n] = config[n]
    BY <1>1, <1>4, <2>1
  <2>3. /\ config'[m].wanted = config[m].wanted /\ config'[m].library = config[m].library
        /\ config'[m].settings = config[m].settings /\ config'[m].time = config[m].time
        /\ config'[m].present
    BY <1>1, <2>2 DEF Entries
  <2>4. \A n \in Mods : /\ config'[n].wanted = config[n].wanted
                        /\ config'[n].library = config[n].library
                        /\ config'[n].settings = config[n].settings
                        /\ config'[n].time = config[n].time
                        /\ config'[n].wanted => config'[n].present
    BY <1>1, <2>2, <2>3
  <2>5. /\ monitor' \in Monitors /\ missed' \in BOOLEAN /\ Told
        /\ monitor = "none" => monitor' = "none"
    BY <1>1, <1>4 DEF Notify, Told, Monitors
  <2>6. WritesOK'
    BY <1>2, <1>4, <2>4, SameWrites
  <2>7. QED
    BY <1>4, <2>2, <2>4, <2>5, <2>6 DEF Read
<1>5. QED
  BY <1>3, <1>4 DEF ReadConfig

(* The shape of the mods.                                                  *)
ModsType(f) == DOMAIN f \subseteq Mods /\ \A m \in DOMAIN f : f[m] \in ModStates

(* The types of the mods of the process, one by one.                       *)
LEMMA ManagerTypes ==
    ASSUME TypeOK
    PROVE  /\ ModsType(mods) /\ stage \in Stages /\ todo \subseteq Mods /\ cur \subseteq Mods
           /\ gone \in Nat /\ keep \subseteq Mods /\ keepOut \subseteq Mods
           /\ toLoad \subseteq Mods
  BY DEF TypeOK, ManagerTypeOK, ModsType

(* Types after a step of the reload.                                       *)
LEMMA TypeFromParts ==
    ASSUME TypeOK, Read, UNCHANGED sessionVars,
           ModsType(mods'), stage' \in Stages, todo' \subseteq Mods, cur' \subseteq Mods,
           gone' \in Nat, keep' \subseteq Mods, keepOut' \subseteq Mods, toLoad' \subseteq Mods
    PROVE  TypeOK'
<1>1. ConfigTypeOK'
  BY DEF TypeOK, ConfigTypeOK, Read
<1>2. ManagerTypeOK'
  BY DEF ManagerTypeOK, ModsType
<1>3. QED
  BY <1>1, <1>2 DEF TypeOK, sessionVars

(* A step of the reload that leaves the session where it is.               *)
LEMMA LoopStays ==
    ASSUME LoopOK, Read, UNCHANGED sessionVars, stage # "idle", StageOK,
           \/ DOMAIN mods' = DOMAIN mods
              /\ (stage' \in Sorting \union {"failed"} => stage \in Sorting \union {"failed"})
           \/ stage' \notin Sorting \union {"failed"}
    PROVE  LoopOK'
<1>1. UNCHANGED <<alive, injected, holder, session, loop, fresh, hookBusy>>
  BY DEF sessionVars
<1>2. loop \in {"construct", "reload"}
  BY DEF StageOK
<1>3. monitor = "none" => monitor' = "none"
  BY DEF Read
<1>4. monitor' = "armed" => monitor = "armed" /\ missed' = missed
  BY DEF Read, NotTold, Told
<1>5. QED
  BY <1>1, <1>2, <1>3, <1>4 DEF LoopOK

(* A step of the reload that reads nothing leaves the configuration alone. *)
LEMMA NotReading ==
    ASSUME Structure, UNCHANGED configVars PROVE Read /\ NotTold
<1>1. UNCHANGED <<config, writes, calls, clock, monitor, missed>>
  BY DEF configVars, storeVars
<1>2. WritesOK'
  BY <1>1, SameWrites DEF Structure, WritesOK
<1>3. QED
  BY <1>1, <1>2, ConfigTypes DEF Read, NotTold, Structure

(* While nothing is told, the configuration is what it was.                *)
LEMMA QuietKept ==
    ASSUME Read, UNCHANGED sessionVars, Quiet' PROVE Quiet /\ NotTold
<1>1. UNCHANGED loop
  BY DEF sessionVars
<1>2. NotTold
  BY DEF Read, Told, Quiet
<1>3. QED
  BY <1>1, <1>2 DEF Quiet, NotTold

(* A step that does not touch a mod, or unloads it.                         *)
LEMMA SettingsFrame ==
    ASSUME Structure, Read, NEW n \in Mods, WriteIsNews(n), TimeTells(n),
           stage = "callback" /\ n \in cur => stage' = "callback" /\ n \in cur',
           n \in DOMAIN mods' =>
                /\ n \in DOMAIN mods
                /\ mods'[n].library = mods[n].library /\ mods'[n].time = mods[n].time
                /\ mods'[n].loaded => mods[n].loaded /\ mods'[n].seen = mods[n].seen
    PROVE  WriteIsNews(n)' /\ TimeTells(n)'
<1>1. /\ UNCHANGED <<writes, calls, clock>>
      /\ config'[n].library = config[n].library
      /\ config'[n].settings = config[n].settings
      /\ config'[n].time = config[n].time
  BY DEF Read
<1>2. WriteIsNews(n)'
  BY <1>1 DEF WriteIsNews, NewEntry, LastField
<1>3. Unsettled(n)' = Unsettled(n) /\ Used' = Used
  BY <1>1 DEF Unsettled, LastField, Used
<1>4. TimeTells(n)'
  BY <1>1, <1>3 DEF TimeTells
<1>5. QED
  BY <1>2, <1>4

------------------------------------------------------------------------------
(* The steps of a reload, one lemma each: what they do to the structure, to  *)
(* what a quiet session knows, and to the settings.                        *)

Preserved ==
    /\ Structure'
    /\ \A n \in Mods : QuietInv(n) => QuietInv(n)'
    /\ \A n \in Mods : WriteIsNews(n) /\ TimeTells(n) => WriteIsNews(n)' /\ TimeTells(n)'

(* A mod is sorted by what is configured for it now.                       *)
LEMMA EnumModPreserves ==
    ASSUME Structure, NEW m \in Mods, EnumMod(m), UNCHANGED sessionVars
    PROVE  Preserved
<1>1. /\ stage = "enum" /\ m \in todo /\ config[m].present /\ todo' = todo \ {m}
      /\ UNCHANGED <<configVars, mods, gone>>
      /\ \/ /\ config[m].wanted /\ m \in DOMAIN mods
            /\ stage' = "apply" /\ cur' = {m} /\ UNCHANGED <<keep, keepOut, toLoad>>
         \/ /\ config[m].wanted /\ m \notin DOMAIN mods
            /\ stage' = "enum" /\ cur' = {} /\ UNCHANGED <<keep, keepOut>>
            /\ toLoad' = toLoad \union {m}
         \/ /\ ~config[m].wanted
            /\ stage' = "enum" /\ cur' = {} /\ UNCHANGED <<keep, keepOut, toLoad>>
  BY DEF EnumMod, Sorted
<1>2. Read /\ NotTold
  BY <1>1, NotReading
<1>3. TypeOK /\ StageOK /\ LoopOK /\ cur = {} /\ UNCHANGED loop
  BY <1>1 DEF Structure, StageOK, sessionVars
<1>4. TypeOK'
  BY <1>1, <1>2, <1>3, ManagerTypes, TypeFromParts DEF Stages
<1>5. StageOK'
  BY <1>1, <1>3 DEF StageOK
<1>6. LoopOK'
  BY <1>1, <1>2, <1>3, LoopStays DEF Sorting
<1>7. Structure'
  BY <1>2, <1>4, <1>5, <1>6 DEF Structure, Read
<1>8. ASSUME NEW n \in Mods, QuietInv(n) PROVE QuietInv(n)'
  <2>1. SUFFICES ASSUME Quiet' PROVE QuietInv(n)'
    BY DEF QuietInv
  <2>2. loop \in {"construct", "reload"} /\ Quiet /\ UNCHANGED config
    BY <1>1, <1>2, <1>3, <2>1, QuietKept DEF StageOK, NotTold
  <2>3. gone = 0 /\ SortedSoFar(n)
    BY <1>1, <1>8, <2>2 DEF QuietInv, Sorting
  <2>4. SortedSoFar(n)'
    BY <1>1, <1>3, <2>2, <2>3 DEF SortedSoFar, SortedRight, SameLibrary
  <2>5. QED
    BY <1>1, <1>3, <2>2, <2>3, <2>4 DEF QuietInv
<1>9. ASSUME NEW n \in Mods, WriteIsNews(n), TimeTells(n)
      PROVE  WriteIsNews(n)' /\ TimeTells(n)'
  BY <1>1, <1>2, <1>9, SettingsFrame
<1>10. QED
  BY <1>7, <1>8, <1>9 DEF Preserved

(* A loaded mod is kept, told of new settings, or loaded again.            *)
LEMMA ApplyChangedSettingsPreserves ==
    ASSUME Structure, NEW m \in Mods, ApplyChangedSettings(m), UNCHANGED sessionVars
    PROVE  Preserved
<1>1. stage = "apply" /\ m \in cur /\ UNCHANGED <<todo, gone>> /\ Read
  BY ReadConfigReads DEF ApplyChangedSettings
<1>2. /\ TypeOK /\ StageOK /\ LoopOK /\ UNCHANGED loop /\ m \in DOMAIN mods
      /\ mods[m] \in ModStates /\ config[m] \in Entries /\ cur = {m}
  BY <1>1, ConfigTypes, ManagerTypes DEF Structure, StageOK, sessionVars, ModsType
<1>3. /\ DOMAIN mods' = DOMAIN mods
      /\ \A n \in DOMAIN mods \ {m} : mods'[n] = mods[n]
      /\ mods'[m] \in ModStates
      /\ mods'[m].library = mods[m].library /\ mods'[m].loaded = mods[m].loaded
      /\ mods'[m].seen = mods[m].seen
      /\ \/ mods' = mods
         \/ mods[m].library = config[m].library /\ mods'[m].time = config[m].time
  <2>1. mods' = mods \/ /\ mods[m].library = config[m].library
                         /\ mods' = [mods EXCEPT ![m].time = config[m].time]
    BY DEF ApplyChangedSettings
  <2>2. config[m].time \in 0..MaxTime
    BY <1>2 DEF Entries
  <2>3. [mods[m] EXCEPT !.time = config[m].time] \in ModStates
    BY <1>2, <2>2 DEF ModStates
  <2>4. QED
    BY <1>2, <2>1, <2>3 DEF ModStates
<1>4. \/ /\ ~CanRead(m) /\ mods' = mods
         /\ stage' = "enum" /\ cur' = {} /\ UNCHANGED <<keep, keepOut, toLoad>>
      \/ /\ config[m].library # mods[m].library /\ mods' = mods
         /\ stage' = "enum" /\ cur' = {} /\ UNCHANGED <<keep, keepOut>>
         /\ toLoad' = toLoad \union {m}
      \/ /\ config[m].library = mods[m].library /\ mods'[m].time = config[m].time
         /\ \/ /\ mods[m].loaded /\ config[m].time # mods[m].time
               /\ stage' = "callback" /\ UNCHANGED <<cur, keep, keepOut, toLoad>>
            \/ /\ ~mods[m].loaded /\ config[m].time # mods[m].time
               /\ stage' = "enum" /\ cur' = {} /\ UNCHANGED <<keep, keepOut>>
               /\ toLoad' = toLoad \union {m}
            \/ /\ config[m].time = mods[m].time
               /\ stage' = "enum" /\ cur' = {} /\ UNCHANGED <<keepOut, toLoad>>
               /\ keep' = keep \union {m}
  BY <1>2 DEF ApplyChangedSettings, Sorted, ModStates
<1>5. TypeOK'
  <2>1. ModsType(mods')
    BY <1>2, <1>3, ManagerTypes DEF ModsType
  <2>2. /\ stage' \in Stages /\ cur' \subseteq Mods
        /\ keep' \subseteq Mods /\ keepOut' \subseteq Mods /\ toLoad' \subseteq Mods
    BY <1>2, <1>4, ManagerTypes DEF Stages
  <2>3. QED
    BY <1>1, <1>2, <2>1, <2>2, ManagerTypes, TypeFromParts
<1>6. StageOK'
  BY <1>1, <1>2, <1>3, <1>4 DEF StageOK
<1>7. LoopOK'
  BY <1>1, <1>2, <1>3, <1>4, LoopStays DEF Sorting
<1>8. Structure'
  BY <1>1, <1>5, <1>6, <1>7 DEF Structure, Read
<1>9. ASSUME NEW n \in Mods, QuietInv(n) PROVE QuietInv(n)'
  <2>1. SUFFICES ASSUME Quiet' PROVE QuietInv(n)'
    BY DEF QuietInv
  <2>2. loop \in {"construct", "reload"} /\ Quiet /\ UNCHANGED config
    BY <1>1, <1>2, <2>1, QuietKept DEF StageOK, NotTold
  <2>3. gone = 0 /\ SortedSoFar(n)
    BY <1>1, <1>9, <2>2 DEF QuietInv, Sorting
  <2>4. n = m => config[m].present /\ CanRead(m)
    BY <1>1, <2>3 DEF SortedSoFar, CanRead
  <2>5. SortedSoFar(n)'
    <3>1. CASE n = m
      <4>1. /\ m \notin todo /\ m \notin keep \union keepOut \union toLoad
            /\ config'[m].present /\ config'[m].wanted
        BY <1>1, <1>2, <2>2, <2>3, <3>1 DEF SortedSoFar, StageOK
      <4>2. CASE stage' = "callback"
        BY <1>1, <1>2, <1>3, <1>4, <2>2, <3>1, <4>1, <4>2 DEF SortedSoFar, SameLibrary
      <4>3. CASE stage' # "callback"
        <5>1. cur' = {}
          BY <1>4, <4>3
        <5>2. config'[m] = config[m]
          BY <2>2
        <5>3. SortedRight(m)'
          BY <1>2, <1>3, <1>4, <2>4, <3>1, <4>1, <4>3, <5>2 DEF SortedRight, SameLibrary
        <5>4. QED
          BY <1>1, <3>1, <4>1, <5>1, <5>3 DEF SortedSoFar
      <4>4. QED
        BY <4>2, <4>3
    <3>2. CASE n # m
      BY <1>1, <1>2, <1>3, <1>4, <2>2, <2>3, <3>2 DEF SortedSoFar, SortedRight, SameLibrary
    <3>3. QED
      BY <3>1, <3>2
  <2>6. stage' \in Sorting /\ stage' \notin {"idle", "load", "init"}
    BY <1>4 DEF Sorting
  <2>7. QED
    BY <1>1, <1>2, <2>2, <2>3, <2>5, <2>6 DEF QuietInv
<1>10. ASSUME NEW n \in Mods, WriteIsNews(n), TimeTells(n)
       PROVE  WriteIsNews(n)' /\ TimeTells(n)'
  <2>1. CASE n # m \/ mods' = mods
    BY <1>1, <1>3, <1>10, <2>1, SettingsFrame
  <2>2. CASE n = m /\ mods[m].library = config[m].library /\ mods'[m].time = config[m].time
    <3>1. /\ UNCHANGED <<writes, calls, clock>>
          /\ config'[m].library = config[m].library
          /\ config'[m].settings = config[m].settings
          /\ config'[m].time = config[m].time
      BY <1>1 DEF Read
    <3>2. WriteIsNews(m)'
      BY <1>2, <1>3, <1>10, <2>2, <3>1 DEF WriteIsNews, NewEntry, LastField
    <3>3. Unsettled(m)' = Unsettled(m) /\ Used' = Used
      BY <3>1 DEF Unsettled, LastField, Used
    <3>4. mods[m].loaded /\ ~(stage' = "callback" /\ m \in cur')
             => mods[m].time = config[m].time
      BY <1>2, <1>4, <2>2
    <3>5. config[m].time \in Nat
      BY <1>2, ConfigTypes DEF Entries
    <3>6. TimeTells(m)'
      BY <1>1, <1>2, <1>3, <1>10, <2>2, <3>1, <3>3, <3>4, <3>5 DEF TimeTells
    <3>7. QED
      BY <2>2, <3>2, <3>6
  <2>3. QED
    BY <1>3, <2>1, <2>2
<1>11. QED
  BY <1>8, <1>9, <1>10 DEF Preserved

(* The mod answers, having seen its settings as they are now; it may be    *)
(* sorted differently then.                                                *)
LEMMA SettingsChangedPreserves ==
    ASSUME Structure, NEW m \in Mods, NEW answer \in Answers, SettingsChanged(m, answer),
           UNCHANGED sessionVars
    PROVE  Preserved
<1>1. /\ stage = "callback" /\ m \in cur /\ UNCHANGED <<todo, gone>> /\ Read
      /\ stage' = "enum" /\ cur' = {}
  BY ReadConfigReads DEF SettingsChanged, Sorted
<1>2. /\ TypeOK /\ StageOK /\ LoopOK /\ UNCHANGED loop /\ m \in DOMAIN mods
      /\ mods[m] \in ModStates /\ config[m] \in Entries /\ cur = {m}
  BY <1>1, ConfigTypes, ManagerTypes DEF Structure, StageOK, sessionVars, ModsType
<1>3. /\ DOMAIN mods' = DOMAIN mods
      /\ \A n \in DOMAIN mods \ {m} : mods'[n] = mods[n]
      /\ mods'[m] \in ModStates
      /\ mods'[m].library = mods[m].library /\ mods'[m].loaded = mods[m].loaded
      /\ mods'[m].time = mods[m].time /\ mods'[m].seen = config[m].settings
  BY <1>2 DEF SettingsChanged, ModStates, Entries
<1>4. /\ Answers = {"keep"} => answer = "keep"
      /\ \/ keep' = keep \union {m} /\ UNCHANGED <<keepOut, toLoad>>
         \/ answer = "unload" /\ keepOut' = keepOut \union {m} /\ UNCHANGED <<keep, toLoad>>
         \/ answer = "reload" /\ toLoad' = toLoad \union {m} /\ UNCHANGED <<keep, keepOut>>
  BY AnswersAssumption DEF SettingsChanged, Sorted
<1>5. TypeOK'
  <2>1. ModsType(mods')
    BY <1>2, <1>3, ManagerTypes DEF ModsType
  <2>2. keep' \subseteq Mods /\ keepOut' \subseteq Mods /\ toLoad' \subseteq Mods
    BY <1>2, <1>4, ManagerTypes
  <2>3. QED
    BY <1>1, <1>2, <2>1, <2>2, ManagerTypes, TypeFromParts DEF Stages
<1>6. StageOK'
  BY <1>1, <1>2, <1>3, <1>4 DEF StageOK
<1>7. LoopOK'
  BY <1>1, <1>2, <1>3, LoopStays DEF Sorting
<1>8. Structure'
  BY <1>1, <1>5, <1>6, <1>7 DEF Structure, Read
<1>9. ASSUME NEW n \in Mods, QuietInv(n) PROVE QuietInv(n)'
  <2>1. SUFFICES ASSUME Quiet' PROVE QuietInv(n)'
    BY DEF QuietInv
  <2>2. loop \in {"construct", "reload"} /\ Quiet /\ UNCHANGED config
    BY <1>1, <1>2, <2>1, QuietKept DEF StageOK, NotTold
  <2>3. gone = 0 /\ SortedSoFar(n)
    BY <1>1, <1>9, <2>2 DEF QuietInv, Sorting
  <2>4. SortedSoFar(n)'
    <3>1. CASE n = m
      <4>1. /\ m \notin todo /\ m \notin keep \union keepOut \union toLoad
            /\ config'[m].present /\ config'[m].wanted /\ SameLibrary(m)
        BY <1>1, <1>2, <2>2, <2>3, <3>1 DEF SortedSoFar, StageOK
      <4>2. SortedRight(m)'
        BY <1>2, <1>3, <1>4, <2>2, <4>1 DEF SortedRight, SameLibrary
      <4>3. QED
        BY <1>1, <3>1, <4>1, <4>2 DEF SortedSoFar
    <3>2. CASE n # m
      BY <1>1, <1>2, <1>3, <1>4, <2>2, <2>3, <3>2 DEF SortedSoFar, SortedRight, SameLibrary
    <3>3. QED
      BY <3>1, <3>2
  <2>5. QED
    BY <1>1, <1>2, <2>2, <2>3, <2>4 DEF QuietInv
<1>10. ASSUME NEW n \in Mods, WriteIsNews(n), TimeTells(n)
       PROVE  WriteIsNews(n)' /\ TimeTells(n)'
  <2>1. CASE n # m
    BY <1>1, <1>2, <1>3, <1>10, <2>1, SettingsFrame
  <2>2. CASE n = m
    <3>1. /\ UNCHANGED <<writes, calls, clock>>
          /\ config'[m].library = config[m].library
          /\ config'[m].settings = config[m].settings
          /\ config'[m].time = config[m].time
      BY <1>1 DEF Read
    <3>2. WriteIsNews(m)'
      BY <1>2, <1>3, <1>10, <2>2, <3>1 DEF WriteIsNews, NewEntry, LastField
    <3>3. Used' = Used
      BY <3>1 DEF Used
    <3>4. TimeTells(m)'
      BY <1>2, <1>3, <1>10, <2>2, <3>1, <3>3 DEF TimeTells
    <3>5. QED
      BY <2>2, <3>2, <3>4
  <2>3. QED
    BY <2>1, <2>2
<1>11. QED
  BY <1>8, <1>9, <1>10 DEF Preserved

(* An enumeration that throws leaves the mods as they are, and the reload  *)
(* counts as missed.                                                       *)
LEMMA EnumModsThrowsPreserves ==
    ASSUME Structure, EnumModsThrows, UNCHANGED sessionVars PROVE Preserved
<1>1. /\ stage = "enum" /\ stage' = "failed"
      /\ UNCHANGED <<configVars, mods, todo, cur, gone, keep, keepOut, toLoad>>
  BY DEF EnumModsThrows
<1>2. Read /\ NotTold
  BY <1>1, NotReading
<1>3. TypeOK /\ StageOK /\ LoopOK /\ UNCHANGED loop
  BY DEF Structure, sessionVars
<1>4. TypeOK'
  BY <1>1, <1>2, <1>3, ManagerTypes, TypeFromParts DEF Stages
<1>5. StageOK' /\ LoopOK'
  BY <1>1, <1>2, <1>3, LoopStays DEF Sorting, StageOK
<1>6. ASSUME NEW n \in Mods PROVE QuietInv(n)'
  BY <1>1, <1>3 DEF QuietInv, Sorting, StageOK
<1>7. ASSUME NEW n \in Mods, WriteIsNews(n), TimeTells(n)
      PROVE  WriteIsNews(n)' /\ TimeTells(n)'
  BY <1>1, <1>2, <1>7, SettingsFrame
<1>8. QED
  BY <1>2, <1>4, <1>5, <1>6, <1>7 DEF Preserved, Structure, Read

(* Nothing that is there has been passed over when no key has gone.          *)
LEMMA AllVisited ==
    ASSUME NEW S \in SUBSET Mods, Cardinality(S) <= 0 PROVE S = {}
<1>1. IsFiniteSet(S)
  BY ModConfigAssumption, FS_Subset
<1>2. Cardinality(S) \in Nat
  BY <1>1, FS_CardinalityType
<1>3. QED
  BY <1>1, <1>2, FS_EmptySet

(* Mods that are sorted to be kept stay, all others go: unless keys were   *)
(* deleted behind the enumeration, those are the ones not wanted.          *)
LEMMA UnloadModsPreserves ==
    ASSUME Structure, UnloadMods, UNCHANGED sessionVars PROVE Preserved
<1>1. /\ stage = "enum" /\ Cardinality({m \in todo : config[m].present}) <= gone
      /\ stage' = "load" /\ todo' = toLoad
      /\ UNCHANGED <<configVars, cur, gone, keep, keepOut, toLoad>>
  BY DEF UnloadMods
<1>2. Read /\ NotTold
  BY <1>1, NotReading
<1>3. /\ TypeOK /\ StageOK /\ LoopOK /\ UNCHANGED loop /\ cur = {}
      /\ loop \in {"construct", "reload"} /\ ModsType(mods) /\ toLoad \subseteq Mods
  BY <1>1, ManagerTypes DEF Structure, sessionVars, StageOK
<1>4. /\ DOMAIN mods' = (DOMAIN mods \intersect (keep \union keepOut)) \union toLoad
      /\ \A m \in toLoad : mods'[m] = NewMod
      /\ \A m \in (DOMAIN mods \intersect keep) \ toLoad : mods'[m] = mods[m]
      /\ \A m \in (DOMAIN mods \intersect keepOut) \ (toLoad \union keep) :
            mods'[m] = [mods[m] EXCEPT !.loaded = FALSE]
  BY DEF UnloadMods
<1>5. \A m \in DOMAIN mods' \ toLoad :
            /\ m \in DOMAIN mods /\ mods'[m] \in ModStates
            /\ mods'[m].library = mods[m].library /\ mods'[m].time = mods[m].time
            /\ mods'[m].loaded => mods[m].loaded /\ mods'[m].seen = mods[m].seen
  <2> TAKE m \in DOMAIN mods' \ toLoad
  <2>1. m \in DOMAIN mods /\ mods[m] \in ModStates
    BY <1>3, <1>4 DEF ModsType
  <2>2. mods'[m] = mods[m] \/ mods'[m] = [mods[m] EXCEPT !.loaded = FALSE]
    BY <1>4
  <2>3. QED
    BY <2>1, <2>2 DEF ModStates
<1>6. /\ NewMod \in ModStates /\ NewMod.library = 0 /\ ~NewMod.loaded
  BY <1>3, ConfigTypes DEF NewMod, ModStates
<1>7. TypeOK'
  <2>1. ModsType(mods')
    BY <1>3, <1>4, <1>5, <1>6 DEF ModsType
  <2>2. QED
    BY <1>1, <1>2, <1>3, <2>1, ManagerTypes, TypeFromParts DEF Stages
<1>8. StageOK'
  BY <1>1, <1>3, <1>4 DEF StageOK
<1>9. LoopOK'
  BY <1>1, <1>2, <1>3, LoopStays DEF Sorting
<1>10. Structure'
  BY <1>2, <1>7, <1>8, <1>9 DEF Structure, Read
<1>11. ASSUME NEW n \in Mods, QuietInv(n) PROVE QuietInv(n)'
  <2>1. SUFFICES ASSUME Quiet' PROVE QuietInv(n)'
    BY DEF QuietInv
  <2>2. Quiet /\ UNCHANGED config
    BY <1>2, <2>1, QuietKept DEF NotTold
  <2>3. gone = 0 /\ SortedSoFar(n)
    BY <1>1, <1>3, <1>11, <2>2 DEF QuietInv, Sorting
  <2>4. n \in todo => ~config[n].present
    <3>1. {m \in todo : config[m].present} = {}
      BY <1>1, <1>3, <2>3, AllVisited, ManagerTypes
    <3>2. QED
      BY <3>1
  <2>5. CASE n \in toLoad
    <3>1. config[n].present /\ config[n].wanted
      BY <1>3, <2>3, <2>5 DEF SortedSoFar, SortedRight
    <3>2. LoadedSoFar(n)'
      BY <1>1, <1>3, <2>2, <2>5, <3>1 DEF LoadedSoFar
    <3>3. QED
      BY <1>1, <1>3, <3>2 DEF QuietInv, Sorting
  <2>6. CASE n \notin toLoad
    <3>1. CASE n \in todo
      BY <1>1, <1>3, <1>4, <2>2, <2>3, <2>4, <2>6, <3>1
         DEF QuietInv, Sorting, LoadedSoFar, SortedSoFar, Follows
    <3>2. CASE n \notin todo
      <4>1. SortedRight(n)
        BY <1>3, <2>3, <3>2 DEF SortedSoFar
      <4>2. CASE ~config[n].wanted
        <5>1. n \notin DOMAIN mods'
          BY <1>4, <2>6, <4>1, <4>2 DEF SortedRight
        <5>2. Follows(n)'
          BY <2>2, <4>2, <5>1 DEF Follows
        <5>3. QED
          BY <1>1, <1>3, <2>6, <5>2 DEF QuietInv, Sorting, LoadedSoFar
      <4>3. CASE config[n].wanted
        <5>1. n \in keep \union keepOut /\ SameLibrary(n) /\ config[n].present
          BY <2>6, <4>1, <4>3 DEF SortedRight
        <5>2. n \in DOMAIN mods' \ toLoad
          BY <1>4, <2>6, <5>1 DEF SameLibrary
        <5>3. Follows(n)'
          BY <1>5, <2>2, <4>3, <5>1, <5>2 DEF Follows, SameLibrary
        <5>4. QED
          BY <1>1, <1>3, <2>6, <5>3 DEF QuietInv, Sorting, LoadedSoFar
      <4>4. QED
        BY <4>2, <4>3
    <3>3. QED
      BY <3>1, <3>2
  <2>7. QED
    BY <2>5, <2>6
<1>12. ASSUME NEW n \in Mods, WriteIsNews(n), TimeTells(n)
       PROVE  WriteIsNews(n)' /\ TimeTells(n)'
  <2>1. CASE n \notin toLoad
    BY <1>1, <1>2, <1>3, <1>5, <1>12, <2>1, SettingsFrame
  <2>2. CASE n \in toLoad
    <3>1. UNCHANGED <<config, writes, calls, clock>>
      BY <1>1 DEF configVars, storeVars
    <3>2. writes # <<>> => calls # 0
      BY ConfigTypes DEF Structure, WritesOK
    <3>3. n \in DOMAIN mods' /\ mods'[n].library = 0 /\ ~mods'[n].loaded
      BY <1>4, <1>6, <2>2
    <3>4. WriteIsNews(n)'
      BY <1>12, <3>1, <3>2, <3>3 DEF WriteIsNews, NewEntry, LastField
    <3>5. Used' = Used /\ 0 \in Used
      BY <1>3, <3>1, ConfigTypes DEF Used
    <3>6. TimeTells(n)'
      BY <1>12, <3>1, <3>3, <3>5 DEF TimeTells
    <3>7. QED
      BY <3>4, <3>6
  <2>3. QED
    BY <2>1, <2>2
<1>13. QED
  BY <1>10, <1>11, <1>12 DEF Preserved

(* A mod is loaded from the library that is configured now.                *)
LEMMA LoadModPreserves ==
    ASSUME Structure, NEW m \in Mods, LoadMod(m), UNCHANGED sessionVars PROVE Preserved
<1>1. /\ stage = "load" /\ m \in todo /\ todo' = todo \ {m} /\ Read
      /\ UNCHANGED <<gone, keep, keepOut, toLoad>>
  BY ReadConfigReads DEF LoadMod
<1>2. /\ TypeOK /\ StageOK /\ LoopOK /\ UNCHANGED loop /\ m \in DOMAIN mods
      /\ mods[m] = NewMod /\ mods[m] \in ModStates /\ config[m] \in Entries /\ cur = {}
      /\ loop \in {"construct", "reload"}
  BY <1>1, ConfigTypes, ManagerTypes DEF Structure, StageOK, sessionVars, ModsType
<1>3. \/ /\ ~CanRead(m) \/ config[m].library = 0
         /\ UNCHANGED <<mods, stage, cur>>
      \/ /\ config[m].library # 0
         /\ DOMAIN mods' = DOMAIN mods
         /\ \A n \in DOMAIN mods \ {m} : mods'[n] = mods[n]
         /\ mods'[m] \in ModStates
         /\ mods'[m].library = config[m].library /\ mods'[m].time = config[m].time
         /\ mods'[m].loaded = mods[m].loaded
         /\ \/ stage' = "init" /\ cur' = {m}
            \/ UNCHANGED <<stage, cur>>
  <2>1. CASE CanRead(m) /\ config[m].library # 0
    <3>1. /\ mods' = [mods EXCEPT ![m].library = config[m].library,
                                  ![m].time = config[m].time]
          /\ \/ stage' = "init" /\ cur' = {m}
             \/ UNCHANGED <<stage, cur>>
      BY <2>1 DEF LoadMod
    <3>2. /\ DOMAIN mods' = DOMAIN mods
          /\ \A n \in DOMAIN mods \ {m} : mods'[n] = mods[n]
          /\ mods'[m] = [[mods[m] EXCEPT !.library = config[m].library]
                             EXCEPT !.time = config[m].time]
      BY <1>2, <3>1
    <3>3. /\ mods'[m] \in ModStates /\ mods'[m].library = config[m].library
          /\ mods'[m].time = config[m].time /\ mods'[m].loaded = mods[m].loaded
      BY <1>2, <3>2 DEF ModStates, Entries
    <3>4. QED
      BY <2>1, <3>1, <3>2, <3>3
  <2>2. CASE ~(CanRead(m) /\ config[m].library # 0)
    BY <2>2 DEF LoadMod
  <2>3. QED
    BY <2>1, <2>2
<1>4. /\ ~mods[m].loaded /\ mods[m].library = 0
  BY <1>2 DEF NewMod
<1>5. TypeOK'
  <2>1. ModsType(mods')
    BY <1>2, <1>3, ManagerTypes DEF ModsType
  <2>2. stage' \in Stages /\ cur' \subseteq Mods
    BY <1>2, <1>3, ManagerTypes DEF Stages
  <2>3. QED
    BY <1>1, <1>2, <2>1, <2>2, ManagerTypes, TypeFromParts
<1>6. StageOK'
  BY <1>1, <1>2, <1>3, <1>4 DEF StageOK
<1>7. LoopOK'
  BY <1>1, <1>2, <1>3, LoopStays DEF Sorting
<1>8. Structure'
  BY <1>1, <1>5, <1>6, <1>7 DEF Structure, Read
<1>9. ASSUME NEW n \in Mods, QuietInv(n) PROVE QuietInv(n)'
  <2>1. SUFFICES ASSUME Quiet' PROVE QuietInv(n)'
    BY DEF QuietInv
  <2>2. Quiet /\ UNCHANGED config
    BY <1>1, <2>1, QuietKept DEF NotTold
  <2>3. LoadedSoFar(n)
    BY <1>1, <1>2, <1>9, <2>2 DEF QuietInv
  <2>4. n = m => config[m].present /\ config[m].wanted /\ CanRead(m)
    BY <1>1, <2>3 DEF LoadedSoFar, CanRead
  <2>5. LoadedSoFar(n)'
    <3>1. CASE n # m
      BY <1>1, <1>2, <1>3, <2>2, <2>3, <3>1 DEF LoadedSoFar, SameLibrary, Follows
    <3>2. CASE n = m /\ UNCHANGED <<mods, stage, cur>>
      BY <1>1, <1>2, <1>3, <1>4, <2>2, <2>4, <3>2 DEF LoadedSoFar, Follows
    <3>3. CASE n = m /\ DOMAIN mods' = DOMAIN mods /\ mods'[m].library = config[m].library
               /\ mods'[m].time = config[m].time
      BY <1>1, <1>2, <2>2, <2>4, <3>3 DEF LoadedSoFar, SameLibrary, Follows
    <3>4. QED
      BY <1>3, <3>1, <3>2, <3>3
  <2>6. stage' \in {"load", "init"}
    BY <1>1, <1>3
  <2>7. QED
    BY <1>2, <2>5, <2>6 DEF QuietInv, Sorting
<1>10. ASSUME NEW n \in Mods, WriteIsNews(n), TimeTells(n)
       PROVE  WriteIsNews(n)' /\ TimeTells(n)'
  <2>1. CASE n # m \/ mods' = mods
    BY <1>1, <1>3, <1>10, <2>1, SettingsFrame
  <2>2. CASE /\ n = m /\ config[m].library # 0
             /\ mods'[m].library = config[m].library /\ mods'[m].time = config[m].time
             /\ ~mods'[m].loaded
    <3>1. /\ UNCHANGED <<writes, calls, clock>>
          /\ config'[m].library = config[m].library
          /\ config'[m].settings = config[m].settings
          /\ config'[m].time = config[m].time
      BY <1>1 DEF Read
    <3>2. WriteIsNews(m)'
      BY <1>10, <2>2, <3>1 DEF WriteIsNews, NewEntry, LastField
    <3>3. Used' = Used
      BY <3>1 DEF Used
    <3>4. config[m].time \in Nat
      BY <1>2, ConfigTypes DEF Entries
    <3>5. TimeTells(m)'
      BY <1>10, <2>2, <3>1, <3>3, <3>4 DEF TimeTells
    <3>6. QED
      BY <2>2, <3>2, <3>5
  <2>3. QED
    BY <1>3, <1>4, <2>1, <2>2
<1>11. QED
  BY <1>8, <1>9, <1>10 DEF Preserved

(* A mod that is initialized has seen its settings as they are now.        *)
LEMMA InitModPreserves ==
    ASSUME Structure, NEW m \in Mods, InitMod(m), UNCHANGED sessionVars PROVE Preserved
<1>1. /\ stage = "init" /\ m \in cur /\ stage' = "load" /\ cur' = {} /\ Read
      /\ UNCHANGED <<todo, gone, keep, keepOut, toLoad>>
  BY ReadConfigReads DEF InitMod
<1>2. /\ TypeOK /\ StageOK /\ LoopOK /\ UNCHANGED loop /\ m \in DOMAIN mods /\ m \notin todo
      /\ mods[m] \in ModStates /\ config[m] \in Entries /\ cur = {m}
      /\ mods[m].library # 0 /\ ~mods[m].loaded /\ loop \in {"construct", "reload"}
  BY <1>1, ConfigTypes, ManagerTypes DEF Structure, StageOK, sessionVars, ModsType
<1>3. /\ DOMAIN mods' = DOMAIN mods
      /\ \A n \in DOMAIN mods \ {m} : mods'[n] = mods[n]
      /\ mods'[m] \in ModStates
      /\ mods'[m].library = mods[m].library /\ mods'[m].time = mods[m].time
      /\ mods'[m].seen = config[m].settings
  <2>1. PICK l \in BOOLEAN : mods' = [mods EXCEPT ![m].seen = config[m].settings,
                                                 ![m].loaded = l]
    BY DEF InitMod
  <2>2. /\ DOMAIN mods' = DOMAIN mods
        /\ \A n \in DOMAIN mods \ {m} : mods'[n] = mods[n]
        /\ mods'[m] = [[mods[m] EXCEPT !.seen = config[m].settings] EXCEPT !.loaded = l]
    BY <1>2, <2>1
  <2>3. /\ mods'[m] \in ModStates /\ mods'[m].library = mods[m].library
        /\ mods'[m].time = mods[m].time /\ mods'[m].seen = config[m].settings
    BY <1>2, <2>2 DEF ModStates, Entries
  <2>4. QED
    BY <2>2, <2>3
<1>4. TypeOK'
  <2>1. ModsType(mods')
    BY <1>2, <1>3, ManagerTypes DEF ModsType
  <2>2. QED
    BY <1>1, <1>2, <2>1, ManagerTypes, TypeFromParts DEF Stages
<1>5. StageOK'
  BY <1>1, <1>2, <1>3 DEF StageOK
<1>6. LoopOK'
  BY <1>1, <1>2, <1>3, LoopStays DEF Sorting
<1>7. Structure'
  BY <1>1, <1>4, <1>5, <1>6 DEF Structure, Read
<1>8. ASSUME NEW n \in Mods, QuietInv(n) PROVE QuietInv(n)'
  <2>1. SUFFICES ASSUME Quiet' PROVE QuietInv(n)'
    BY DEF QuietInv
  <2>2. Quiet /\ UNCHANGED config
    BY <1>1, <2>1, QuietKept DEF NotTold
  <2>3. LoadedSoFar(n)
    BY <1>1, <1>2, <1>8, <2>2 DEF QuietInv
  <2>4. LoadedSoFar(n)'
    <3>1. CASE n # m
      BY <1>1, <1>2, <1>3, <2>2, <2>3, <3>1 DEF LoadedSoFar, Follows
    <3>2. CASE n = m
      BY <1>1, <1>2, <1>3, <2>2, <2>3, <3>2 DEF LoadedSoFar, Follows, SameLibrary
    <3>3. QED
      BY <3>1, <3>2
  <2>5. QED
    BY <1>1, <1>2, <2>4 DEF QuietInv, Sorting
<1>9. ASSUME NEW n \in Mods, WriteIsNews(n), TimeTells(n)
      PROVE  WriteIsNews(n)' /\ TimeTells(n)'
  <2>1. CASE n # m
    BY <1>1, <1>3, <1>9, <2>1, SettingsFrame
  <2>2. CASE n = m
    <3>1. /\ UNCHANGED <<writes, calls, clock>>
          /\ config'[m].library = config[m].library
          /\ config'[m].settings = config[m].settings
          /\ config'[m].time = config[m].time
      BY <1>1 DEF Read
    <3>2. WriteIsNews(m)'
      BY <1>2, <1>3, <1>9, <2>2, <3>1 DEF WriteIsNews, NewEntry, LastField
    <3>3. Used' = Used
      BY <3>1 DEF Used
    <3>4. TimeTells(m)'
      BY <1>2, <1>3, <1>9, <2>2, <3>1, <3>3 DEF TimeTells
    <3>5. QED
      BY <2>2, <3>2, <3>4
  <2>3. QED
    BY <2>1, <2>2
<1>10. QED
  BY <1>7, <1>8, <1>9 DEF Preserved

(* The reload is over when no mod is left to be loaded.                    *)
LEMMA FinishLoadingPreserves ==
    ASSUME Structure, FinishLoading, UNCHANGED sessionVars PROVE Preserved
<1>1. /\ stage = "load" /\ todo = {} /\ stage' = "idle"
      /\ UNCHANGED <<configVars, mods, todo, cur, gone, keep, keepOut, toLoad>>
  BY DEF FinishLoading
<1>2. Read /\ NotTold
  BY <1>1, NotReading
<1>3. TypeOK /\ StageOK /\ LoopOK /\ UNCHANGED loop /\ cur = {}
      /\ loop \in {"construct", "reload"}
  BY <1>1 DEF Structure, sessionVars, StageOK
<1>4. TypeOK'
  BY <1>1, <1>2, <1>3, ManagerTypes, TypeFromParts DEF Stages
<1>5. StageOK' /\ LoopOK'
  BY <1>1, <1>2, <1>3, LoopStays DEF Sorting, StageOK
<1>6. ASSUME NEW n \in Mods, QuietInv(n) PROVE QuietInv(n)'
  <2>1. SUFFICES ASSUME Quiet' PROVE QuietInv(n)'
    BY DEF QuietInv
  <2>2. Quiet /\ UNCHANGED config
    BY <1>2, <2>1, QuietKept DEF NotTold
  <2>3. Follows(n)
    BY <1>1, <1>3, <1>6, <2>2 DEF QuietInv, LoadedSoFar
  <2>4. Follows(n)'
    BY <1>1, <2>2, <2>3 DEF Follows
  <2>5. QED
    BY <1>1, <1>3, <2>4 DEF QuietInv, Sorting
<1>7. ASSUME NEW n \in Mods, WriteIsNews(n), TimeTells(n)
      PROVE  WriteIsNews(n)' /\ TimeTells(n)'
  BY <1>1, <1>2, <1>7, SettingsFrame
<1>8. QED
  BY <1>2, <1>4, <1>5, <1>6, <1>7 DEF Preserved, Structure, Read

(* A step of the reload keeps the invariants.                              *)
LEMMA ManagerStepPreserves ==
    ASSUME Structure, ManagerStep, UNCHANGED sessionVars PROVE Preserved
  BY EnumModPreserves, ApplyChangedSettingsPreserves, SettingsChangedPreserves,
     EnumModsThrowsPreserves, UnloadModsPreserves, LoadModPreserves, InitModPreserves,
     FinishLoadingPreserves DEF ManagerStep

------------------------------------------------------------------------------
(* The steps of the writers.                                               *)

(* The settings need the clock to go on between two changes of them.        *)
Writes2 ==
    /\ Structure'
    /\ \A n \in Mods : QuietInv(n) => QuietInv(n)'
    /\ ("sameSecond" \notin Faults /\ \A n \in Mods : WriteIsNews(n) /\ TimeTells(n))
         => \A n \in Mods : WriteIsNews(n)' /\ TimeTells(n)'

(* A call of the extension that begins writes nothing yet; what it is      *)
(* going to write is new.                                                  *)
LEMMA CalledPreserves ==
    ASSUME Structure, NEW m \in Mods, Called(m), UNCHANGED managerVars, UNCHANGED sessionVars
    PROVE  Writes2
<1>1. /\ UNCHANGED <<config, clock, monitor, missed>> /\ writes = <<>> /\ WritesOK'
      /\ calls' = calls + 1 /\ calls < MaxCalls /\ calls \in Nat /\ MaxCalls \in Nat
      /\ Before = MaxCalls + 1 /\ Names = 0..Before
      /\ UNCHANGED <<mods, stage, todo, cur, gone, keep, keepOut, toLoad>>
      /\ UNCHANGED <<alive, injected, holder, session, loop, fresh, hookBusy>>
  BY ConfigTypes DEF Called, Structure, managerVars, sessionVars
<1>2. TypeOK /\ WritesOK /\ StageOK /\ LoopOK
  BY DEF Structure
<1>3. TypeOK'
  <2>1. ConfigTypeOK'
    <3>1. \A i \in DOMAIN writes' : writes'[i].mod \in Mods
      <4>1. DOMAIN writes' = 1..Len(writes')
        BY <1>1, LenProperties DEF WritesOK
      <4>2. QED
        BY <1>1, <4>1 DEF WritesOK, WriteOK
    <3>2. calls' \in 0..MaxCalls
      BY <1>1
    <3>3. QED
      BY <1>1, <1>2, <3>1, <3>2 DEF TypeOK, ConfigTypeOK
  <2>2. ManagerTypeOK'
    BY <1>1, <1>2 DEF TypeOK, ManagerTypeOK
  <2>3. QED
    BY <1>1, <1>2, <2>1, <2>2 DEF TypeOK
<1>4. StageOK' /\ LoopOK'
  BY <1>1, <1>2 DEF StageOK, LoopOK
<1>5. ASSUME NEW n \in Mods, QuietInv(n) PROVE QuietInv(n)'
  BY <1>1, <1>5 DEF QuietInv, Quiet, Follows, SortedSoFar, SortedRight, SameLibrary, LoadedSoFar
<1>6. ASSUME "sameSecond" \notin Faults, NEW n \in Mods, WriteIsNews(n), TimeTells(n)
      PROVE  WriteIsNews(n)' /\ TimeTells(n)'
  <2>1. /\ writes' # <<>> /\ writes'[1].mod = m /\ NewWrites(m)
        /\ NewSecond(m) <=> config[m].time < clock
    BY <1>6 DEF Called, NewWrites, NewSecond
  <2>2. /\ config[n].library # calls'
        /\ n \in DOMAIN mods => mods[n].library # calls'
    BY <1>1, <1>6 DEF TimeTells, Used
  <2>3. config[n] \in Entries /\ config[n].time \in Nat /\ clock \in Nat
    BY <1>2, ConfigTypes DEF Entries
  <2>4. CASE n # m
    <3>1. ~(writes'[1].mod = n)
      BY <2>1, <2>4
    <3>2. QED
      BY <1>1, <1>6, <2>3, <3>1 DEF WriteIsNews, TimeTells, Used, Unsettled
  <2>5. CASE n = m
    <3>1. ASSUME writes'[1].field = "file" PROVE NewEntry(writes[1].value, m)'
      <4> DEFINE v == writes'[1].value
      <4>1. config[m].time <= clock /\ config[m].time \in Nat /\ 0 <= clock
        BY <1>6, <2>3, <2>5 DEF TimeTells
      <4>2. /\ v.library \in {0, calls', config[m].library}
            /\ v.time \in {0, config[m].time, clock}
            /\ v.library = config[m].library /\ v.library # 0 =>
                  \/ v.settings = config[m].settings /\ v.time = config[m].time
                  \/ v.time = clock /\ config[m].time < clock
        BY <2>1, <3>1 DEF NewWrites
      <4> HIDE DEF v
      <4>3. v.time <= clock
        BY <2>3, <4>1, <4>2
      <4>4. v.library = config[m].library /\ v.library # 0 =>
                  \/ v.settings = config[m].settings /\ v.time = config[m].time
                  \/ v.time > config[m].time
        BY <2>3, <4>1, <4>2
      <4>5. QED
        BY <1>1, <4>2, <4>3, <4>4 DEF NewEntry, v
    <3>2. LastField' = "time" => config[m].time < clock
      BY <2>1 DEF NewWrites
    <3>3. WriteIsNews(n)'
      BY <1>1, <2>2, <2>5, <3>1, <3>2 DEF WriteIsNews
    <3>4. ~Unsettled(n)
      BY <1>1 DEF Unsettled
    <3>5. TimeTells(n)'
      BY <1>1, <1>6, <3>4 DEF TimeTells, Used
    <3>6. QED
      BY <3>3, <3>5
  <2>6. QED
    BY <2>4, <2>5
<1>7. QED
  BY <1>1, <1>3, <1>4, <1>5, <1>6 DEF Writes2, Structure

(* Time goes on; what is going to be written will be even later.           *)
LEMMA TickPreserves ==
    ASSUME Structure, Tick, UNCHANGED managerVars, UNCHANGED sessionVars PROVE Writes2
<1>1. /\ UNCHANGED <<config, writes, calls, monitor, missed>>
      /\ clock' = clock + 1 /\ clock < MaxTime /\ clock \in Nat /\ clock \in 1..MaxTime
      /\ MaxTime \in Nat
      /\ UNCHANGED <<mods, stage, todo, cur, gone, keep, keepOut, toLoad>>
      /\ UNCHANGED <<alive, injected, holder, session, loop, fresh, hookBusy>>
  BY ConfigTypes DEF Tick, Structure, managerVars, sessionVars
<1>2. TypeOK /\ WritesOK /\ StageOK /\ LoopOK
  BY DEF Structure
<1>3. clock' \in 1..MaxTime
  BY <1>1
<1>4. TypeOK'
  BY <1>1, <1>2, <1>3 DEF TypeOK, ConfigTypeOK, ManagerTypeOK
<1>5. WritesOK' /\ StageOK' /\ LoopOK'
  BY <1>1, <1>2, SameWrites DEF WritesOK, StageOK, LoopOK
<1>6. ASSUME NEW n \in Mods, QuietInv(n) PROVE QuietInv(n)'
  BY <1>1, <1>6 DEF QuietInv, Quiet, Follows, SortedSoFar, SortedRight, SameLibrary, LoadedSoFar
<1>7. ASSUME NEW n \in Mods, WriteIsNews(n), TimeTells(n)
      PROVE  WriteIsNews(n)' /\ TimeTells(n)'
  <2>1. config[n].time \in Nat
    BY <1>2, ConfigTypes DEF Entries
  <2>2. Used' = Used /\ LastField' = LastField /\ Unsettled(n)' = Unsettled(n)
    BY <1>1 DEF Used, LastField, Unsettled
  <2>3. TimeTells(n)'
    BY <1>1, <1>7, <2>1, <2>2 DEF TimeTells
  <2>4. ASSUME writes # <<>>, writes[1].mod = n, writes[1].field = "file"
        PROVE  NewEntry(writes[1].value, n)'
    <3>1. 1 \in 1..Len(writes)
      BY <1>2, <2>4, WritesLen
    <3>2. writes[1].value \in Entries
      BY <1>2, <2>4, <3>1 DEF WritesOK, WriteOK
    <3>3. writes[1].value.time \in Nat
      BY <1>1, <3>2 DEF Entries
    <3>4. NewEntry(writes[1].value, n)
      BY <1>7, <2>4 DEF WriteIsNews
    <3>5. QED
      BY <1>1, <3>3, <3>4 DEF NewEntry
  <2>5. WriteIsNews(n)'
    BY <1>1, <1>7, <2>1, <2>2, <2>4 DEF WriteIsNews
  <2>6. QED
    BY <2>3, <2>5
<1>8. QED
  BY <1>4, <1>5, <1>6, <1>7 DEF Writes2, Structure

(* A write: whoever has read the configuration before it is notified, and  *)
(* no mod has the new library or the new time already.                     *)
LEMMA PerformWritePreserves ==
    ASSUME Structure, PerformWrite, gone' \in Nat,
           UNCHANGED <<mods, stage, todo, cur, keep, keepOut, toLoad>>, UNCHANGED sessionVars
    PROVE  Writes2
<1> DEFINE m == writes[1].mod
<1>1. Wrote(m)
  BY PerformWriteWrote
<1>2. UNCHANGED <<alive, injected, holder, session, loop, fresh, hookBusy>>
  BY DEF sessionVars
<1>3. TypeOK /\ WritesOK /\ StageOK /\ LoopOK /\ monitor \in Monitors /\ missed \in BOOLEAN
  BY ConfigTypes DEF Structure
<1>4. /\ monitor' \in Monitors /\ missed' \in BOOLEAN
      /\ monitor' # "armed" /\ (monitor' = "none" => missed')
      /\ monitor = "none" => monitor' = "none"
  BY <1>1, <1>3 DEF Wrote, Notify, Monitors
<1>5. TypeOK'
  <2>1. DOMAIN writes' = 1..Len(writes')
    BY <1>1, LenProperties DEF Wrote, WritesOK
  <2>2. \A i \in DOMAIN writes' : writes'[i].mod \in Mods
    BY <1>1, <2>1 DEF Wrote, WritesOK, WriteOK
  <2>3. ConfigTypeOK'
    BY <1>1, <1>3, <1>4, <2>2 DEF Wrote, TypeOK, ConfigTypeOK
  <2>4. ManagerTypeOK'
    BY <1>3 DEF TypeOK, ManagerTypeOK
  <2>5. QED
    BY <1>2, <1>3, <2>3, <2>4 DEF TypeOK
<1>6. StageOK' /\ LoopOK' /\ WritesOK'
  BY <1>1, <1>2, <1>3, <1>4 DEF StageOK, LoopOK, Wrote
<1>7. ASSUME NEW n \in Mods PROVE QuietInv(n)'
  BY <1>4 DEF QuietInv, Quiet
<1>8. ASSUME NEW n \in Mods, WriteIsNews(n), TimeTells(n)
      PROVE  WriteIsNews(n)' /\ TimeTells(n)'
  <2>1. /\ UNCHANGED <<calls, clock, mods, stage, cur>> /\ writes # <<>> /\ m \in Mods
        /\ Len(writes) \in Nat \ {0} /\ Len(writes') = Len(writes) - 1
        /\ writes' = <<>> <=> Len(writes) = 1
        /\ writes' # <<>> => /\ LastField' = LastField /\ writes'[1].mod = m
                             /\ writes'[1].field \notin {"library", "file"}
    BY <1>1 DEF Wrote
  <2>2. Used' = Used
    BY <2>1 DEF Used
  <2>3. CASE n # m
    <3>1. config'[n] = config[n]
      BY <1>1, <2>3 DEF Wrote
    <3>2. ~Unsettled(n) /\ ~Unsettled(n)'
      BY <2>1, <2>3 DEF Unsettled
    <3>3. TimeTells(n)'
      BY <1>8, <2>1, <2>2, <3>1, <3>2 DEF TimeTells
    <3>4. WriteIsNews(n)'
      BY <2>1, <2>3 DEF WriteIsNews
    <3>5. QED
      BY <3>3, <3>4
  <2>4. CASE n = m
    <3> DEFINE w == writes[1]
               e == config[m]
               d == config'[m]
    <3>1. /\ Shows(e, w, d) /\ e \in Entries /\ d \in Entries
          /\ e.time \in Nat /\ d.time \in Nat /\ clock \in Nat
      <4>1. Shows(e, w, d) /\ e \in Entries /\ d \in Entries /\ clock \in Nat
        BY <1>1, <1>3, <2>1, ConfigTypes DEF Wrote
      <4>2. e.time \in Nat /\ d.time \in Nat
        BY <4>1 DEF Entries
      <4>3. QED
        BY <4>1, <4>2
    <3>2. WriteOK(1) /\ calls \in Used /\ 0 \in Used
      <4>1. 1 \in 1..Len(writes)
        BY <2>1
      <4>2. QED
        BY <1>3, <4>1, ConfigTypes DEF WritesOK, Used
    <3>3. /\ w.field \in Fields
          /\ w.field = "library" => w.value = calls
          /\ w.field = "settings" => LastField \in {"time", "key"}
          /\ w.field \in {"time", "key", "file"} => writes' = <<>> /\ LastField = w.field
          /\ w.field = "values" => LastField = "key"
          /\ writes' = <<>> => LastField = w.field
      BY <2>1, <3>2 DEF WriteOK, LastField
    <3>4. /\ w.field \in {"library", "file"} =>
                /\ e.library # calls
                /\ m \in DOMAIN mods => mods[m].library # calls
          /\ w.field = "file" => NewEntry(w.value, m)
          /\ LastField = "time" => e.time < clock
      BY <1>8, <2>1, <2>4 DEF WriteIsNews
    <3>5. m \in DOMAIN mods => mods[m] \in ModStates /\ mods[m].time \in Nat
      BY <1>3, ManagerTypes, ConfigTypes DEF ModsType, ModStates
    <3>6. /\ d.time <= clock /\ d.library \in Used
          /\ d.library \in {0, calls} \/ d.library = e.library
      BY <1>8, <2>4, <3>1, <3>2, <3>3, <3>4 DEF Shows, NewEntry, TimeTells, Fields
    <3>7. LastField' = "time" /\ writes' # <<>> => d.time < clock
      BY <2>1, <3>1, <3>3, <3>4 DEF Shows, Fields
    <3>8. WriteIsNews(n)'
      BY <2>1, <2>4, <3>7 DEF WriteIsNews
    <3>9. Unsettled(n) <=> LastField \in {"time", "key"}
      BY <2>1, <2>4 DEF Unsettled
    <3>10. Unsettled(n)' <=> writes' # <<>> /\ LastField \in {"time", "key"}
      BY <2>1, <2>4 DEF Unsettled
    <3>11. ASSUME m \in DOMAIN mods, mods[m].library = d.library, d.library # 0
           PROVE  /\ mods[m].library = e.library /\ mods[m].time <= d.time
                  /\ \/ d.time = e.time /\ (d.settings = e.settings \/ w.field = "settings")
                     \/ d.time > mods[m].time
      <4>1. d.library = e.library /\ w.field \notin {"values", "key", "library"}
        BY <3>1, <3>3, <3>4, <3>6, <3>11 DEF Shows, Fields
      <4>2. mods[m].time <= e.time
        BY <1>8, <2>4, <3>11, <4>1 DEF TimeTells
      <4>3. CASE w.field = "file"
        BY <3>1, <3>4, <3>5, <3>11, <4>1, <4>2, <4>3 DEF Shows, NewEntry
      <4>4. CASE w.field = "time"
        BY <3>1, <3>3, <3>4, <3>5, <3>11, <4>1, <4>2, <4>4 DEF Shows
      <4>5. CASE w.field \in {"wanted", "settings"}
        BY <3>1, <3>4, <3>5, <3>11, <4>1, <4>2, <4>5 DEF Shows
      <4>6. QED
        BY <3>3, <4>1, <4>3, <4>4, <4>5 DEF Fields
    <3>12. ASSUME m \in DOMAIN mods, mods[m].loaded, ~Unsettled(n)',
                  ~(stage = "callback" /\ m \in cur),
                  mods[m].library = d.library, mods[m].time = d.time
           PROVE  mods[m].seen = d.settings
      <4>1. d.library # 0
        BY <1>8, <2>4, <3>12 DEF TimeTells
      <4>2. /\ mods[m].library = e.library
            /\ d.time = e.time /\ (d.settings = e.settings \/ w.field = "settings")
        BY <3>1, <3>5, <3>11, <3>12, <4>1
      <4>3. (writes' = <<>> /\ w.field # "settings") \/ LastField \notin {"time", "key"}
        BY <3>3, <3>10, <3>12
      <4>4. w.field # "settings" /\ (writes' = <<>> => LastField = w.field)
        BY <3>3, <4>3
      <4>5. LastField # "time"
        BY <3>1, <3>3, <3>4, <3>10, <3>12, <4>2 DEF Shows
      <4>6. LastField # "key"
        BY <3>1, <3>3, <3>10, <3>12, <4>1 DEF Shows
      <4>7. QED
        BY <1>8, <2>4, <3>9, <3>12, <4>2, <4>4, <4>5, <4>6 DEF TimeTells
    <3>13. TimeTells(n)'
      <4>1. m \in DOMAIN mods =>
              mods[m].library \in Used /\ (mods[m].loaded => mods[m].library # 0)
        BY <1>8, <2>4 DEF TimeTells
      <4>2. QED
        BY <2>1, <2>2, <2>4, <3>6, <3>11, <3>12, <4>1 DEF TimeTells
    <3>14. QED
      BY <3>8, <3>13
  <2>5. QED
    BY <2>3, <2>4
<1>9. QED
  BY <1>5, <1>6, <1>7, <1>8 DEF Writes2, Structure

(* A step of those who write keeps the invariants.                         *)
LEMMA WriterStepPreserves ==
    ASSUME Structure, WriterStep, UNCHANGED sessionVars PROVE Writes2
<1>1. CASE \E m \in Mods, on \in BOOLEAN : EnableMod(m, on) /\ UNCHANGED managerVars
  BY <1>1, EnableModCalls, CalledPreserves
<1>2. CASE \E m \in Mods : SetModSettings(m) /\ UNCHANGED managerVars
  BY <1>2, SetModSettingsCalls, CalledPreserves
<1>3. CASE \E m \in Mods, on, merged \in BOOLEAN :
              SetModConfig(m, on, merged) /\ UNCHANGED managerVars
  BY <1>3, SetModConfigCalls, CalledPreserves
<1>4. CASE \E m \in Mods : DeleteMod(m) /\ UNCHANGED managerVars
  BY <1>4, DeleteModCalls, CalledPreserves
<1>5. CASE Tick /\ UNCHANGED managerVars
  BY <1>5, TickPreserves
<1>6. CASE /\ PerformWrite
           /\ gone' = IF stage \notin {"enum", "apply", "callback"} \/ Storage = "ini" THEN gone
                      ELSE gone + Cardinality({m \in Mods : config[m].present
                                                         /\ ~config'[m].present})
           /\ UNCHANGED <<mods, stage, todo, cur, keep, keepOut, toLoad>>
  <2>1. IsFiniteSet({m \in Mods : config[m].present /\ ~config'[m].present})
    BY ModConfigAssumption, FS_Subset
  <2>2. Cardinality({m \in Mods : config[m].present /\ ~config'[m].present}) \in Nat
    BY <2>1, FS_CardinalityType
  <2>3. gone \in Nat
    BY ManagerTypes DEF Structure
  <2>4. gone' \in Nat
    BY <1>6, <2>2, <2>3
  <2>5. QED
    BY <1>6, <2>4, PerformWritePreserves
<1>7. QED
  BY <1>1, <1>2, <1>3, <1>4, <1>5, <1>6 DEF WriterStep

------------------------------------------------------------------------------
(* The steps of the session and of its managers.                           *)

(* A step of the session that reads and writes no configuration: it may      *)
(* arm, drop or use up the notification, begin a reload, or end one.        *)
LEMMA SessionTypes ==
    ASSUME TypeOK
    PROVE  /\ alive \subseteq Managers /\ {holder, session} \subseteq Managers \union {NoManager}
           /\ injected \in [Managers -> {"no", "waiting", "started", "refused"}]
           /\ loop \in Loops /\ {fresh, hookBusy} \subseteq BOOLEAN
  BY DEF TypeOK

(* Steps of the session that do not write keep the structure when they     *)
(* keep its own parts.                                                     *)
LEMMA StoreStays ==
    ASSUME Structure, UNCHANGED storeVars, monitor' \in Monitors, missed' \in BOOLEAN,
           ManagerTypeOK',
           alive' \subseteq Managers, {holder', session'} \subseteq Managers \union {NoManager},
           injected' \in [Managers -> {"no", "waiting", "started", "refused"}],
           loop' \in Loops, {fresh', hookBusy'} \subseteq BOOLEAN, StageOK', LoopOK'
    PROVE  Structure'
<1>1. UNCHANGED <<config, writes, calls, clock>> /\ TypeOK /\ WritesOK
  BY DEF storeVars, Structure
<1>2. TypeOK'
  BY <1>1 DEF TypeOK, ConfigTypeOK
<1>3. WritesOK'
  BY <1>1, SameWrites DEF WritesOK
<1>4. QED
  BY <1>2, <1>3 DEF Structure

(* Steps of the session that do not write, and change no mod but by        *)
(* dropping all, keep what is known of the settings.                       *)
LEMMA SettingsStay ==
    ASSUME Structure, UNCHANGED storeVars, stage # "callback",
           mods' = mods \/ DOMAIN mods' = {},
           NEW n \in Mods, WriteIsNews(n), TimeTells(n)
    PROVE  WriteIsNews(n)' /\ TimeTells(n)'
<1>1. UNCHANGED <<config, writes, calls, clock>>
  BY DEF storeVars
<1>2. Used' = Used /\ LastField' = LastField /\ Unsettled(n)' = Unsettled(n)
  BY <1>1 DEF Used, LastField, Unsettled
<1>3. QED
  BY <1>1, <1>2 DEF WriteIsNews, NewEntry, TimeTells

(* The store stays, and so does what is known of it.                       *)
LEMMA QuietSame ==
    ASSUME UNCHANGED <<storeVars, mods>>, NEW n \in Mods
    PROVE  Follows(n)' <=> Follows(n)
  BY DEF storeVars, Follows

(* A session manager exits, or injects the process, or the last call of     *)
(* CreateProcessInternalW returns: nothing else of the session changes.     *)
LEMMA ManagerExitsPreserves ==
    ASSUME Structure,
           (\E s \in Managers : ManagerExits(s) \/ InjectInit(s)) \/ HookCallsReturn
    PROVE  Preserved
<1>1. /\ UNCHANGED <<configVars, managerVars, holder, session, loop, fresh>>
      /\ hookBusy' \in BOOLEAN
      /\ alive' \subseteq Managers
      /\ injected' \in [Managers -> {"no", "waiting", "started", "refused"}]
  BY SessionTypes DEF ManagerExits, InjectInit, HookCallsReturn, Structure
<1>2. /\ UNCHANGED storeVars /\ UNCHANGED <<monitor, missed, mods, stage, todo, cur, gone>>
      /\ UNCHANGED <<keep, keepOut, toLoad, holder, session, loop, fresh, config, writes>>
  BY <1>1 DEF configVars, storeVars, managerVars
<1>3. TypeOK /\ StageOK /\ LoopOK
  BY DEF Structure
<1>4. StageOK' /\ LoopOK' /\ ManagerTypeOK'
  BY <1>2, <1>3 DEF StageOK, LoopOK, TypeOK, ManagerTypeOK
<1>5. Structure'
  BY <1>1, <1>2, <1>3, <1>4, StoreStays, ConfigTypes, SessionTypes
<1>6. ASSUME NEW n \in Mods, QuietInv(n) PROVE QuietInv(n)'
  BY <1>2, <1>6 DEF QuietInv, Quiet, Follows, SortedSoFar, SortedRight, SameLibrary, LoadedSoFar
<1>7. ASSUME NEW n \in Mods, WriteIsNews(n), TimeTells(n)
      PROVE  WriteIsNews(n)' /\ TimeTells(n)'
  <2>1. Read
    BY <1>1, NotReading
  <2>2. QED
    BY <1>2, <1>7, <2>1, SettingsFrame
<1>8. QED
  BY <1>5, <1>6, <1>7 DEF Preserved

(* A reload begins: with no mods, or with those of the last one.            *)
LEMMA BeginEnumPreserves ==
    ASSUME Structure, BeginEnum, UNCHANGED storeVars, missed' = FALSE, monitor' \in Monitors,
           alive' \subseteq Managers, {holder', session'} \subseteq Managers \union {NoManager},
           injected' \in [Managers -> {"no", "waiting", "started", "refused"}],
           {fresh', hookBusy'} \subseteq BOOLEAN, loop' \in {"construct", "reload"}, LoopOK', stage = "idle"
    PROVE  Preserved
<1>1. /\ stage' = "enum" /\ todo' = Mods /\ cur' = {} /\ gone' = 0
      /\ keep' = {} /\ keepOut' = {} /\ toLoad' = {} /\ mods' = mods
      /\ UNCHANGED config
  BY DEF BeginEnum, storeVars
<1>2. StageOK'
  BY <1>1 DEF StageOK
<1>3. ManagerTypeOK'
  BY <1>1, ManagerTypes DEF ManagerTypeOK, Structure, ModsType, Stages
<1>4. Structure'
  BY <1>2, <1>3, StoreStays DEF Loops
<1>5. ASSUME NEW n \in Mods PROVE QuietInv(n)'
  BY <1>1 DEF QuietInv, Sorting, SortedSoFar
<1>6. ASSUME NEW n \in Mods, WriteIsNews(n), TimeTells(n)
      PROVE  WriteIsNews(n)' /\ TimeTells(n)'
  BY <1>1, <1>6, SettingsStay
<1>7. QED
  BY <1>4, <1>5, <1>6 DEF Preserved

(* A session starts with the semaphore: it has no mods, and begins to read *)
(* all.                                                                    *)
LEMMA StartPreserves ==
    ASSUME Structure, NEW s \in Managers, Start(s) PROVE Preserved
<1>1. /\ holder = NoManager /\ injected' = [injected EXCEPT ![s] = "started"]
      /\ holder' = s /\ session' = s /\ loop' = "construct" /\ fresh' = FromAPC
      /\ BeginEnum /\ missed' = FALSE /\ UNCHANGED <<storeVars, monitor, alive, hookBusy>>
  BY DEF Start
<1>2. TypeOK /\ StageOK /\ LoopOK
  BY DEF Structure
<1>3. loop = "none" /\ monitor = "none" /\ DOMAIN mods = {} /\ stage = "idle"
  BY <1>1, <1>2 DEF LoopOK, StageOK
<1>4. s # NoManager /\ mods' = mods /\ stage' = "enum"
  BY <1>1, SessionAssumption DEF BeginEnum
<1>5. LoopOK'
  BY <1>1, <1>3, <1>4 DEF LoopOK
<1>6. injected' \in [Managers -> {"no", "waiting", "started", "refused"}]
  BY <1>1, <1>2, SessionTypes
<1>7. QED
  BY <1>1, <1>2, <1>3, <1>5, <1>6, BeginEnumPreserves, ConfigTypes, SessionTypes,
     SessionAssumption

(* The notification is armed again before the reload reads anything.       *)
LEMMA ContinueMonitoringPreserves ==
    ASSUME Structure, ContinueMonitoring PROVE Preserved
<1>1. /\ loop = "rearm" /\ monitor' \in {"armed", "none"} /\ missed' = FALSE
      /\ BeginEnum /\ loop' = "reload" /\ UNCHANGED storeVars
      /\ UNCHANGED <<alive, injected, holder, session, fresh, hookBusy>>
  BY DEF ContinueMonitoring, ArmMonitor, UnchangedStore
<1>2. TypeOK /\ StageOK /\ LoopOK
  BY DEF Structure
<1>3. stage = "idle" /\ monitor' \in Monitors
  BY <1>1, <1>2 DEF StageOK, Monitors
<1>4. LoopOK'
  BY <1>1, <1>2 DEF LoopOK
<1>5. QED
  BY <1>1, <1>2, <1>3, <1>4, BeginEnumPreserves, SessionTypes

(* The steps of the session that leave its mods alone.                     *)
LEMMA ModsStay ==
    ASSUME Structure, UNCHANGED storeVars, UNCHANGED <<mods, cur, todo, gone>>,
           UNCHANGED <<keep, keepOut, toLoad>>, UNCHANGED <<alive, injected>>,
           stage # "callback", stage' \in {"idle", "enum", "load", "failed"} \/ stage' = stage,
           stage' \in Stages, monitor' \in Monitors, missed' \in BOOLEAN,
           {holder', session'} \subseteq Managers \union {NoManager},
           loop' \in Loops, {fresh', hookBusy'} \subseteq BOOLEAN, StageOK', LoopOK',
           \A n \in Mods : QuietInv(n) => QuietInv(n)'
    PROVE  Preserved
<1>1. ManagerTypeOK'
  BY ManagerTypes DEF Structure, ManagerTypeOK, ModsType
<1>2. Structure'
  BY <1>1, StoreStays, SessionTypes DEF Structure
<1>3. ASSUME NEW n \in Mods, WriteIsNews(n), TimeTells(n)
      PROVE  WriteIsNews(n)' /\ TimeTells(n)'
  BY <1>3, SettingsStay
<1>4. QED
  BY <1>2, <1>3 DEF Preserved

(* The session has been constructed, its mods are loaded.                  *)
LEMMA ConstructedPreserves ==
    ASSUME Structure, Constructed PROVE Preserved
<1>1. /\ loop = "construct" /\ stage = "idle" /\ loop' = "arm"
      /\ UNCHANGED <<configVars, managerVars, alive, injected, holder, session, fresh, hookBusy>>
  BY DEF Constructed
<1>2. TypeOK /\ StageOK /\ LoopOK
  BY DEF Structure
<1>3. /\ UNCHANGED storeVars /\ UNCHANGED <<monitor, missed, mods, stage, todo, cur, gone>>
      /\ UNCHANGED <<keep, keepOut, toLoad>>
  BY <1>1 DEF configVars, managerVars
<1>4. StageOK' /\ LoopOK'
  BY <1>1, <1>2, <1>3 DEF StageOK, LoopOK
<1>5. ASSUME NEW n \in Mods, QuietInv(n) PROVE QuietInv(n)'
  <2>1. Quiet' => Quiet
    BY <1>1, <1>3 DEF Quiet
  <2>2. QED
    BY <1>1, <1>3, <1>5, <2>1, QuietSame DEF QuietInv
<1>6. QED
  BY <1>1, <1>2, <1>3, <1>4, <1>5, ModsStay, ConfigTypes, ManagerTypes, SessionTypes DEF Loops

(* A constructor that throws leaves no session, and no mods.               *)
LEMMA ConstructorThrowsPreserves ==
    ASSUME Structure, ConstructorThrows PROVE Preserved
<1>1. /\ loop = "construct" /\ stage = "failed" /\ stage' = "idle" /\ loop' = "none"
      /\ session' = NoManager /\ holder' = NoManager
      /\ UNCHANGED <<configVars, mods, todo, cur, gone, keep, keepOut, toLoad,
                     alive, injected, fresh, hookBusy>>
  BY DEF ConstructorThrows
<1>2. TypeOK /\ StageOK /\ LoopOK
  BY DEF Structure
<1>3. UNCHANGED storeVars /\ UNCHANGED <<monitor, missed>>
  BY <1>1 DEF configVars
<1>4. StageOK' /\ LoopOK'
  BY <1>1, <1>2, <1>3 DEF StageOK, LoopOK
<1>5. ASSUME NEW n \in Mods PROVE QuietInv(n)'
  BY <1>1 DEF QuietInv
<1>6. QED
  BY <1>1, <1>2, <1>3, <1>4, <1>5, ModsStay, ConfigTypes, SessionTypes DEF Loops, Stages

(* The main loop arms the notification; writes before that count as        *)
(* missed, because nobody was notified of them.                            *)
LEMMA StartInitializedPreserves ==
    ASSUME Structure, StartInitialized PROVE Preserved
<1>1. /\ loop = "arm" /\ UNCHANGED storeVars /\ UNCHANGED managerVars
      /\ UNCHANGED <<missed, alive, injected, holder, session, fresh, hookBusy>>
      /\ \/ loop' = "wait" /\ monitor' \in {"armed", "none"}
         \/ loop' = "delete" /\ UNCHANGED monitor
  BY DEF StartInitialized, ArmMonitor, UnchangedStore, UnchangedMods
<1>2. TypeOK /\ StageOK /\ LoopOK
  BY DEF Structure
<1>3. UNCHANGED <<mods, stage, todo, cur, gone, keep, keepOut, toLoad>>
  BY <1>1 DEF managerVars
<1>4. monitor = "none" /\ stage = "idle" /\ monitor' \in Monitors
  BY <1>1, <1>2 DEF LoopOK, StageOK, Monitors
<1>5. StageOK' /\ LoopOK'
  BY <1>1, <1>2, <1>3, <1>4 DEF StageOK, LoopOK
<1>6. ASSUME NEW n \in Mods, QuietInv(n) PROVE QuietInv(n)'
  <2>1. Quiet' => Quiet
    BY <1>1, <1>4 DEF Quiet
  <2>2. QED
    BY <1>1, <1>3, <1>6, <2>1, QuietSame DEF QuietInv
<1>7. QED
  BY <1>1, <1>2, <1>3, <1>4, <1>5, <1>6, ModsStay, ConfigTypes, SessionTypes
     DEF Loops, Stages

(* From the notification to the thread that goes on.                       *)
LEMMA RunPreserves ==
    ASSUME Structure, RunCompletes \/ RunNotified \/ RunDebounced \/ RecreateThread
    PROVE  Preserved
<1>1. /\ loop \in {"wait", "debounce", "recreateToReload", "recreateToDelete"}
      /\ loop' \in {"recreateToDelete", "delete", "debounce", "recreateToReload", "rearm"}
      /\ monitor' \in {monitor, "none", "fired"}
      /\ UNCHANGED storeVars /\ UNCHANGED managerVars
      /\ UNCHANGED <<missed, alive, injected, holder, session, hookBusy>>
      /\ fresh' \in {fresh, FALSE}
  BY DEF RunCompletes, RunNotified, RunDebounced, RecreateThread, UnchangedStore,
         UnchangedMods, configVars
<1>2. TypeOK /\ StageOK /\ LoopOK
  BY DEF Structure
<1>3. UNCHANGED <<mods, stage, todo, cur, gone, keep, keepOut, toLoad>>
  BY <1>1 DEF managerVars
<1>4. stage = "idle" /\ monitor' \in Monitors /\ fresh' \in BOOLEAN /\ loop' \in Loops
  BY <1>1, <1>2, ConfigTypes, SessionTypes DEF StageOK, Monitors, Loops
<1>5. StageOK' /\ LoopOK'
  BY <1>1, <1>2, <1>3, <1>4 DEF StageOK, LoopOK
<1>6. ASSUME NEW n \in Mods PROVE QuietInv(n)'
  BY <1>1 DEF QuietInv
<1>7. QED
  BY <1>1, <1>2, <1>3, <1>4, <1>5, <1>6, ModsStay, ConfigTypes, SessionTypes DEF Stages

(* The reload is over, or has failed half way.                             *)
LEMMA ReloadedPreserves ==
    ASSUME Structure, Reloaded PROVE Preserved
<1>1. /\ loop = "reload" /\ stage \in {"idle", "failed"} /\ stage' = "idle" /\ loop' = "wait"
      /\ missed' = (missed \/ stage = "failed")
      /\ UNCHANGED <<storeVars, monitor, mods, todo, cur, gone, keep, keepOut, toLoad,
                     alive, injected, holder, session, fresh, hookBusy>>
  BY DEF Reloaded
<1>2. TypeOK /\ StageOK /\ LoopOK
  BY DEF Structure
<1>3. StageOK' /\ LoopOK'
  BY <1>1, <1>2 DEF StageOK, LoopOK
<1>4. ASSUME NEW n \in Mods, QuietInv(n) PROVE QuietInv(n)'
  <2>1. Quiet' => Quiet /\ stage = "idle"
    BY <1>1, <1>2, ConfigTypes DEF Quiet
  <2>2. QED
    BY <1>1, <1>4, <2>1, QuietSame DEF QuietInv
<1>5. missed' \in BOOLEAN
  BY <1>1, <1>2, ConfigTypes
<1>6. QED
  BY <1>1, <1>2, <1>3, <1>4, <1>5, ModsStay, ConfigTypes, SessionTypes DEF Loops, Stages

(* The session begins to delete itself: it monitors no more.               *)
LEMMA DeleteThisPreserves ==
    ASSUME Structure, DeleteThis PROVE Preserved
<1>1. /\ loop = "delete" /\ monitor' = "none" /\ loop' = "drain" /\ hookBusy' \in BOOLEAN
      /\ UNCHANGED storeVars /\ UNCHANGED managerVars
      /\ UNCHANGED <<missed, alive, injected, holder, session, fresh>>
  BY DEF DeleteThis, UnchangedStore, UnchangedMods
<1>2. TypeOK /\ StageOK /\ LoopOK
  BY DEF Structure
<1>3. UNCHANGED <<mods, stage, todo, cur, gone, keep, keepOut, toLoad>>
  BY <1>1 DEF managerVars
<1>4. StageOK' /\ LoopOK' /\ stage = "idle"
  BY <1>1, <1>2, <1>3 DEF StageOK, LoopOK
<1>5. ASSUME NEW n \in Mods PROVE QuietInv(n)'
  BY <1>1 DEF QuietInv
<1>6. QED
  BY <1>1, <1>2, <1>3, <1>4, <1>5, ModsStay, ConfigTypes, SessionTypes
     DEF Loops, Stages, Monitors

(* The session has waited for the calls in its hook, and drops its mods.    *)
LEMMA DestroySessionPreserves ==
    ASSUME Structure, DestroySession PROVE Preserved
<1>1. /\ loop = "drain" /\ session' = NoManager /\ DOMAIN mods' = {}
      /\ loop' = "release" /\ UNCHANGED storeVars
      /\ UNCHANGED <<missed, monitor, stage, todo, cur, gone, keep, keepOut, toLoad,
                     alive, injected, holder, fresh, hookBusy>>
  BY DEF DestroySession, UnchangedStore
<1>2. TypeOK /\ StageOK /\ LoopOK
  BY DEF Structure
<1>3. stage = "idle"
  BY <1>1, <1>2 DEF StageOK
<1>4. StageOK' /\ LoopOK'
  BY <1>1, <1>2, <1>3 DEF StageOK, LoopOK
<1>5. ManagerTypeOK'
  BY <1>1, <1>2, ManagerTypes DEF ManagerTypeOK, ModsType
<1>6. Structure'
  BY <1>1, <1>2, <1>4, <1>5, StoreStays, ConfigTypes, SessionTypes DEF Loops
<1>7. ASSUME NEW n \in Mods PROVE QuietInv(n)'
  BY <1>1 DEF QuietInv
<1>8. ASSUME NEW n \in Mods, WriteIsNews(n), TimeTells(n)
      PROVE  WriteIsNews(n)' /\ TimeTells(n)'
  BY <1>1, <1>3, <1>8, SettingsStay
<1>9. QED
  BY <1>6, <1>7, <1>8 DEF Preserved

(* The semaphore is released after the session has gone.                   *)
LEMMA ReleaseSemaphorePreserves ==
    ASSUME Structure, ReleaseSemaphore PROVE Preserved
<1>1. /\ loop = "release" /\ holder' = NoManager /\ loop' = "none"
      /\ UNCHANGED <<configVars, managerVars, alive, injected, session, fresh, hookBusy>>
  BY DEF ReleaseSemaphore
<1>2. TypeOK /\ StageOK /\ LoopOK
  BY DEF Structure
<1>3. /\ UNCHANGED storeVars /\ UNCHANGED <<monitor, missed, mods, stage, todo, cur, gone>>
      /\ UNCHANGED <<keep, keepOut, toLoad>>
  BY <1>1 DEF configVars, managerVars
<1>4. StageOK' /\ LoopOK' /\ stage = "idle"
  BY <1>1, <1>2, <1>3 DEF StageOK, LoopOK
<1>5. ASSUME NEW n \in Mods PROVE QuietInv(n)'
  BY <1>1 DEF QuietInv
<1>6. QED
  BY <1>1, <1>2, <1>3, <1>4, <1>5, ModsStay, ConfigTypes, SessionTypes DEF Loops, Stages

(* The two invariants are inductive, each of them above the same           *)
(* structure.                                                              *)
LEMMA NextPreserves ==
    ASSUME Structure, [Next]_vars PROVE Preserved \/ Writes2
<1>1. CASE UNCHANGED vars
  <2>1. /\ UNCHANGED <<configVars, managerVars, sessionVars>>
        /\ UNCHANGED <<mods, stage, todo, cur, gone, keep, keepOut, toLoad>>
        /\ UNCHANGED <<alive, injected, holder, session, loop, fresh, hookBusy>>
    BY <1>1 DEF vars, managerVars, sessionVars
  <2>2. Read /\ NotTold /\ TypeOK /\ StageOK /\ LoopOK
    BY <2>1, NotReading DEF Structure
  <2>3. TypeOK'
    BY <2>1, <2>2, ManagerTypes, TypeFromParts
  <2>4. UNCHANGED <<config, writes, calls, clock, monitor, missed>>
    BY <2>1 DEF configVars, storeVars
  <2>5. Structure'
    BY <2>1, <2>2, <2>3, <2>4 DEF Structure, StageOK, LoopOK, Read
  <2>6. ASSUME NEW n \in Mods, QuietInv(n) PROVE QuietInv(n)'
    BY <2>1, <2>4, <2>6
       DEF QuietInv, Quiet, Follows, SortedSoFar, SortedRight, SameLibrary, LoadedSoFar
  <2>7. ASSUME NEW n \in Mods, WriteIsNews(n), TimeTells(n)
        PROVE  WriteIsNews(n)' /\ TimeTells(n)'
    BY <2>1, <2>2, <2>7, SettingsFrame
  <2>8. QED
    BY <2>5, <2>6, <2>7 DEF Preserved
<1>2. CASE (\E s \in Managers : ManagerExits(s) \/ InjectInit(s) \/ Start(s)) \/ HookCallsReturn
  BY <1>2, ManagerExitsPreserves, StartPreserves
<1>3. CASE SessionStep
  BY <1>3, ConstructedPreserves, ConstructorThrowsPreserves, StartInitializedPreserves,
     RunPreserves, ContinueMonitoringPreserves, ReloadedPreserves, DeleteThisPreserves,
     DestroySessionPreserves, ReleaseSemaphorePreserves, ManagerStepPreserves DEF SessionStep
<1>4. CASE WriterStep /\ UNCHANGED sessionVars
  BY <1>4, WriterStepPreserves
<1>5. QED
  BY <1>1, <1>2, <1>3, <1>4 DEF Next

(* At first there is no session, and what is configured was written        *)
(* before.                                                                 *)
LEMMA InitStructure ==
    ASSUME Init PROVE Structure /\ \A m \in Mods : QuietInv(m) /\ WriteIsNews(m) /\ TimeTells(m)
<1>1. /\ config \in [Mods -> {NoEntry, Installed}] /\ writes = <<>> /\ calls = 0 /\ clock = 1
      /\ monitor = "none" /\ missed = FALSE
      /\ DOMAIN mods = {} /\ stage = "idle" /\ todo = {} /\ cur = {} /\ gone = 0
      /\ keep = {} /\ keepOut = {} /\ toLoad = {}
      /\ alive = Managers /\ injected = [s \in Managers |-> "no"] /\ holder = NoManager
      /\ session = NoManager /\ loop = "none" /\ fresh = FALSE
      /\ hookBusy = FALSE
  BY DEF Init, ConfigInit, ManagerInit
<1>2. MaxTime \in Nat \ {0} /\ MaxCalls \in Nat /\ Before = MaxCalls + 1 /\ Before \in Names
      /\ 0 \in Names
  BY ModConfigAssumption DEF Before, Names
<1>3. \A m \in Mods : /\ config[m] \in Entries /\ config[m].library \in {0, Before}
                      /\ config[m].time = 0 /\ (config[m].wanted => config[m].present)
  <2>1. /\ NoEntry \in Entries /\ NoEntry.library = 0 /\ NoEntry.time = 0 /\ ~NoEntry.wanted
        /\ Installed \in Entries /\ Installed.library = Before /\ Installed.time = 0
        /\ Installed.present
    BY <1>2 DEF NoEntry, Installed, Entries
  <2>2. QED
    BY <1>1, <2>1
<1>4. config \in [Mods -> Entries]
  BY <1>1, <1>3
<1>5. TypeOK
  <2>1. ConfigTypeOK
    <3>1. DOMAIN writes = {}
      BY <1>1
    <3>2. calls \in 0..MaxCalls /\ clock \in 1..MaxTime
      BY <1>1, <1>2
    <3>3. QED
      BY <1>1, <1>4, <3>1, <3>2 DEF ConfigTypeOK, Monitors
  <2>2. ManagerTypeOK
    BY <1>1 DEF ManagerTypeOK, Stages
  <2>3. QED
    BY <1>1, <2>1, <2>2 DEF TypeOK, Loops
<1>6. WritesOK
  <2>1. Len(writes) = 0 /\ writes \in Seq({writes[i] : i \in DOMAIN writes})
    BY <1>1, EmptySeq
  <2>2. QED
    BY <1>1, <1>3, <2>1 DEF WritesOK
<1>7. StageOK /\ LoopOK
  BY <1>1 DEF StageOK, LoopOK
<1>8. ASSUME NEW m \in Mods PROVE QuietInv(m) /\ WriteIsNews(m) /\ TimeTells(m)
  BY <1>1, <1>3 DEF QuietInv, WriteIsNews, TimeTells, Used
<1>9. QED
  BY <1>5, <1>6, <1>7, <1>8 DEF Structure

(* The inductive invariant of the reload holds in every reachable state.   *)
THEOREM ReloadInvAlways == Spec => []ReloadInv
<1>1. Init => ReloadInv
  BY InitStructure DEF ReloadInv
<1>2. ReloadInv /\ [Next]_vars => ReloadInv'
  BY NextPreserves DEF ReloadInv, Preserved, Writes2
<1>3. QED
  BY <1>1, <1>2, PTL DEF Spec

(* Every variable keeps its type.                                          *)
THEOREM TypeCorrect == Spec => []TypeOK
<1>1. ReloadInv => TypeOK
  BY DEF ReloadInv, Structure
<1>2. QED
  BY <1>1, ReloadInvAlways, PTL

(* CustomizationSession::Start never finds a session, or mods of one, when it *)
(* has got the semaphore: whoever may have made them still holds it.        *)
THEOREM OneSession == Spec => []SemaphoreGuardsSession
<1>1. ReloadInv => SemaphoreGuardsSession
  BY DEF ReloadInv, Structure, LoopOK, SemaphoreGuardsSession
<1>2. QED
  BY <1>1, ReloadInvAlways, PTL

------------------------------------------------------------------------------
(* ReloadModsAndSettings sorts a mod that is as it is configured into the    *)
(* mods to keep, if no other answer is given to Wh_ModSettingsChanged.      *)
THEOREM ReloadsOnlyChanged == Spec => UntouchedModsStayLoaded
<1>1. ASSUME ReloadInv, [Next]_vars PROVE KeepsUntouched
  <2>1. SUFFICES ASSUME NEW m \in DOMAIN mods, loop = "reload", stage = "enum", stage' = "load", monitor = "armed",
                        mods[m].loaded, config[m].wanted,
                        mods[m].library = config[m].library, Answers = {"keep"}
                 PROVE  m \in DOMAIN mods' /\ mods'[m] = mods[m]
    BY DEF KeepsUntouched
  <2>2. /\ Structure /\ TypeOK /\ WritesOK /\ StageOK /\ LoopOK /\ m \in Mods /\ QuietInv(m)
    BY <1>1, ManagerTypes DEF ReloadInv, Structure, ModsType
  <2>3. UnloadMods
    BY <1>1, <2>1 DEF Next, SessionStep, ManagerStep, WriterStep, vars, managerVars,
       ManagerExits, InjectInit, Start, BeginEnum, Constructed, ConstructorThrows,
       StartInitialized, RunCompletes, RunNotified, RunDebounced, RecreateThread,
       ContinueMonitoring, Reloaded, DeleteThis, DestroySession, ReleaseSemaphore,
       HookCallsReturn, UnchangedMods,
       EnumMod, ApplyChangedSettings, SettingsChanged, EnumModsThrows, LoadMod, InitMod,
       FinishLoading, Sorted
  <2>4. Quiet /\ cur = {} /\ keepOut = {} /\ gone = 0 /\ SortedSoFar(m)
    BY <2>1, <2>2 DEF LoopOK, StageOK, Quiet, QuietInv, Sorting
  <2>5. m \notin todo
    <3>1. {k \in todo : config[k].present} = {}
      BY <2>2, <2>3, <2>4, AllVisited, ManagerTypes DEF UnloadMods
    <3>2. config[m].present
      BY <2>1, <2>2 DEF WritesOK
    <3>3. QED
      BY <3>1, <3>2
  <2>6. m \in keep /\ m \notin toLoad
    BY <2>1, <2>4, <2>5 DEF SortedSoFar, SortedRight
  <2>7. QED
    BY <2>3, <2>6 DEF UnloadMods
<1>2. QED
  BY <1>1, ReloadInvAlways, PTL DEF Spec, UntouchedModsStayLoaded

------------------------------------------------------------------------------
(* What follows needs the clock to go on between two changes of the settings *)
(* of a mod: SettingsChangeTime is in seconds, and the engine cannot tell    *)
(* two changes in the same second apart.                                   *)
THEOREM SettingsInvAlways ==
    ASSUME "sameSecond" \notin Faults PROVE Spec => []SettingsInv
<1>1. Init => SettingsInv
  BY InitStructure DEF SettingsInv
<1>2. SettingsInv /\ [Next]_vars => SettingsInv'
  BY NextPreserves DEF SettingsInv, Preserved, Writes2
<1>3. QED
  BY <1>1, <1>2, PTL DEF Spec

(* A session that waits for a notification has the mods, the libraries and   *)
(* the settings that are configured.                                       *)
THEOREM NoChangeIsLost ==
    ASSUME "sameSecond" \notin Faults PROVE Spec => []NoLostChange
<1>1. ASSUME ReloadInv, SettingsInv PROVE NoLostChange
  <2>1. SUFFICES ASSUME loop = "wait", monitor = "armed", ~missed, NEW m \in Mods
                 PROVE  Mirrors(m)
    BY DEF NoLostChange, Synced
  <2>2. Follows(m) /\ TimeTells(m) /\ stage = "idle"
    BY <1>1, <2>1 DEF ReloadInv, SettingsInv, QuietInv, Quiet, Structure, StageOK
  <2>3. ~BeingWritten(m) => ~Unsettled(m)
    <3>1. writes # <<>> => 1 \in DOMAIN writes
      BY <1>1, WritesLen DEF ReloadInv, Structure
    <3>2. QED
      BY <3>1 DEF BeingWritten, Unsettled
  <2>4. QED
    BY <2>2, <2>3 DEF Follows, TimeTells, Mirrors
<1>2. QED
  BY <1>1, ReloadInvAlways, SettingsInvAlways, PTL

(* And that is all that stands between the mods and the settings: without    *)
(* two changes in the same second, the mods are told of every change.       *)
THEOREM OnlySameSecondHides ==
    ASSUME "sameSecond" \notin Faults PROVE Spec => []SettingsChangesAreTold
<1>1. ASSUME ReloadInv, NoLostChange PROVE SettingsChangesAreTold
  <2>1. SUFFICES ASSUME loop = "wait", monitor = "armed", ~missed, writes = <<>>,
                        NEW m \in DOMAIN mods, mods[m].loaded
                 PROVE  mods[m].seen = config[m].settings
    BY DEF SettingsChangesAreTold
  <2>2. m \in Mods /\ Mirrors(m)
    BY <1>1, <2>1, ManagerTypes DEF ReloadInv, Structure, ModsType, NoLostChange, Synced
  <2>3. ~BeingWritten(m)
    BY <2>1 DEF BeingWritten
  <2>4. QED
    BY <2>1, <2>2, <2>3 DEF Mirrors
<1>2. QED
  BY <1>1, ReloadInvAlways, NoChangeIsLost, PTL

==============================================================================
