----------------------------- MODULE JournalProofs -----------------------------
(***************************************************************************)
(* Proofs about Journal for any calls, files and sizes: a thread writes    *)
(* the members of the journal only after a change of the configuration,    *)
(* and as long as no two threads do so at once every sink that is replaced *)
(* is released.                                                            *)
(*                                                                         *)
(* For the first the strengthening is that without a change the journal    *)
(* has what it would read (Settled); for the second, which sinks the core  *)
(* has while a thread replaces them (SinksInUse).                          *)
(***************************************************************************)
EXTENDS Journal, TLAPS

WritersAreRecords ==
    /\ DOMAIN writer = Calls
    /\ \A c \in Calls : DOMAIN writer[c] = {"at", "name", "size", "seen"}
    /\ DOMAIN journal = {"file_name_", "max_size_", "sink_", "logger_"}
    /\ changes \in Nat
    /\ raced \in BOOLEAN /\ crashed \in BOOLEAN

\* What the journal has is what it reads, so that no comparison fails.
Settled ==
    /\ ReadFileName(config, journal.file_name_) = journal.file_name_
    /\ ReadMaxSize(config, journal.max_size_) = journal.max_size_
    /\ \A c \in Calls :
          /\ ~Updating(c)
          /\ writer[c].at \in {"readSize", "compare"} =>
                writer[c].name = journal.file_name_
          /\ writer[c].at = "compare" => writer[c].size = journal.max_size_
    /\ raced = FALSE

JournalInv == WritersAreRecords /\ (changes = 0 => Settled)

-----------------------------------------------------------------------------
\* Reading again what was read changes nothing.
LEMMA ReadAgain ==
    ASSUME NEW c, NEW name, NEW size
    PROVE  /\ ReadFileName(c, ReadFileName(c, name)) = ReadFileName(c, name)
           /\ ReadMaxSize(c, ReadMaxSize(c, size)) = ReadMaxSize(c, size)
<1>1. ReadFileName(c, ReadFileName(c, name)) = ReadFileName(c, name)
  BY DEF ReadFileName
<1>2. ReadMaxSize(c, ReadMaxSize(c, size)) = ReadMaxSize(c, size)
  BY DEF ReadMaxSize
<1> QED BY <1>1, <1>2

LEMMA JournalInvInit == Init => JournalInv
<1> SUFFICES ASSUME Init PROVE JournalInv
  OBVIOUS
<1>1. WritersAreRecords
  BY DEF Init, WritersAreRecords
<1>2. /\ journal.file_name_ = ReadFileName(config, kDefaultFileName_)
      /\ journal.max_size_ = ReadMaxSize(config, kDefaultMaxSize_)
  BY DEF Init
<1>3. \A c \in Calls : writer[c].at = "idle"
  BY DEF Init
<1>4. raced = FALSE
  BY DEF Init
<1>5. Settled
  BY <1>2, <1>3, <1>4, ReadAgain DEF Settled, Updating
<1> QED BY <1>1, <1>5 DEF JournalInv

\* A thread goes on to a step at which it writes nothing.
LEMMA WriterPreservesSettled ==
    ASSUME WritersAreRecords, Settled, NEW c \in Calls,
           UNCHANGED <<config, journal>>,
           DOMAIN writer' = Calls,
           \A d \in Calls \ {c} : writer'[d] = writer[d],
           raced' = (raced \/ Race'),
           writer'[c].at \notin {"setName", "setSize", "makeSink", "makeLogger"},
           writer'[c].at \in {"readSize", "compare"} =>
               writer'[c].name = journal.file_name_,
           writer'[c].at = "compare" => writer'[c].size = journal.max_size_
    PROVE  Settled'
<1>1. \A d \in Calls : ~Updating(d)'
  BY DEF Settled, Updating
<1>2. ~Race'
  BY <1>1 DEF Race
<1>3. raced' = FALSE
  BY <1>2 DEF Settled
<1>4. \A d \in Calls :
          /\ writer'[d].at \in {"readSize", "compare"} =>
                writer'[d].name = journal.file_name_
          /\ writer'[d].at = "compare" => writer'[d].size = journal.max_size_
  BY DEF Settled
<1> QED BY <1>1, <1>3, <1>4 DEF Settled

\* What every step of a thread has in common.
LEMMA StepFacts ==
    ASSUME WritersAreRecords, NEW c \in Calls, NEW from, NEW to, Step(c, from, to)
    PROVE  /\ writer[c].at = from
           /\ config' = config /\ changes' = changes /\ crashed' = crashed
           /\ DOMAIN writer' = Calls
           /\ \A d \in Calls \ {c} : writer'[d] = writer[d]
           /\ DOMAIN writer'[c] = {"at", "name", "size", "seen"}
           /\ writer'[c].at = to /\ writer'[c].name = writer[c].name
           /\ writer'[c].size = writer[c].size
           /\ raced' \in BOOLEAN /\ raced' = (raced \/ Race')
BY DEF Step, WritersAreRecords

\* What a step that writes a member of the journal leaves of it.
LEMMA WriteFacts ==
    ASSUME WritersAreRecords, NEW c \in Calls
    PROVE  /\ SetName(c) \/ SetSize(c) \/ MakeSink(c) \/ MakeLogger(c) =>
                 DOMAIN journal' = {"file_name_", "max_size_", "sink_", "logger_"}
           /\ SetName(c) =>
                 /\ journal'.file_name_ = writer[c].name
                 /\ journal'.sink_ = journal.sink_ /\ journal'.logger_ = journal.logger_
           /\ SetSize(c) =>
                 /\ journal'.file_name_ = journal.file_name_
                 /\ journal'.sink_ = journal.sink_ /\ journal'.logger_ = journal.logger_
           /\ MakeSink(c) =>
                 /\ journal'.file_name_ = journal.file_name_
                 /\ journal'.sink_ = Len(file_of) + 1
                 /\ journal'.logger_ = journal.logger_
           /\ MakeLogger(c) =>
                 /\ journal'.file_name_ = journal.file_name_
                 /\ journal'.sink_ = journal.sink_ /\ journal'.logger_ = journal.sink_
<1>1. SetName(c) =>
         /\ DOMAIN journal' = DOMAIN journal
         /\ journal'.file_name_ = writer[c].name
         /\ journal'.sink_ = journal.sink_ /\ journal'.logger_ = journal.logger_
  BY DEF SetName, WritersAreRecords
<1>2. SetSize(c) =>
         /\ DOMAIN journal' = DOMAIN journal
         /\ journal'.file_name_ = journal.file_name_
         /\ journal'.sink_ = journal.sink_ /\ journal'.logger_ = journal.logger_
  BY DEF SetSize, WritersAreRecords
<1>3. MakeSink(c) =>
         /\ DOMAIN journal' = DOMAIN journal
         /\ journal'.file_name_ = journal.file_name_
         /\ journal'.sink_ = Len(file_of) + 1
         /\ journal'.logger_ = journal.logger_
  <2> HAVE MakeSink(c)
  <2>1. journal' = [journal EXCEPT !.sink_ = Len(file_of) + 1]
    BY DEF MakeSink
  <2> QED BY <2>1 DEF WritersAreRecords
<1>4. MakeLogger(c) =>
         /\ DOMAIN journal' = DOMAIN journal
         /\ journal'.file_name_ = journal.file_name_
         /\ journal'.sink_ = journal.sink_ /\ journal'.logger_ = journal.sink_
  BY DEF MakeLogger, WritersAreRecords
<1> QED BY <1>1, <1>2, <1>3, <1>4 DEF WritersAreRecords

LEMMA JournalInvStep ==
    ASSUME JournalInv, [Next]_vars
    PROVE  JournalInv'
<1> USE DEF JournalInv
<1>1. ASSUME NEW c \in Calls, AddRecord(c)
      PROVE  JournalInv'
  <2>1. /\ DOMAIN writer' = Calls
        /\ \A d \in Calls \ {c} : writer'[d] = writer[d]
        /\ DOMAIN writer'[c] = {"at", "name", "size", "seen"}
        /\ writer'[c].at = "readName"
    BY <1>1 DEF AddRecord, WritersAreRecords
  <2>2. /\ UNCHANGED <<config, journal, changes, crashed>>
        /\ raced' = (raced \/ Race') /\ raced' \in BOOLEAN
    BY <1>1 DEF AddRecord, WritersAreRecords
  <2>3. WritersAreRecords'
    BY <2>1, <2>2 DEF WritersAreRecords
  <2>4. Settled => Settled'
    BY <2>1, <2>2, WriterPreservesSettled
  <2> QED BY <2>2, <2>3, <2>4
<1>2. ASSUME NEW c \in Calls, ReadKeys(c)
      PROVE  JournalInv'
  <2>1. /\ UNCHANGED <<config, journal, changes, crashed>>
        /\ raced' = (raced \/ Race') /\ raced' \in BOOLEAN
        /\ DOMAIN writer' = Calls
        /\ \A d \in Calls \ {c} : writer'[d] = writer[d]
        /\ DOMAIN writer'[c] = {"at", "name", "size", "seen"}
    BY <1>2 DEF ReadKeys, WritersAreRecords
  <2>2. \/ /\ writer'[c].at = "readSize"
           /\ writer'[c].name = ReadFileName(config, journal.file_name_)
        \/ /\ writer[c].at = "readSize" /\ writer'[c].at = "compare"
           /\ writer'[c].name = writer[c].name
           /\ writer'[c].size = ReadMaxSize(config, journal.max_size_)
    BY <1>2 DEF ReadKeys, WritersAreRecords
  <2>3. WritersAreRecords'
    BY <2>1 DEF WritersAreRecords
  <2>4. Settled => Settled'
    <3> SUFFICES ASSUME Settled PROVE Settled'
      OBVIOUS
    <3>1. /\ writer'[c].at \in {"readSize", "compare"}
          /\ writer'[c].name = journal.file_name_
          /\ writer'[c].at = "compare" => writer'[c].size = journal.max_size_
      BY <2>2 DEF Settled
    <3> QED BY <2>1, <3>1, WriterPreservesSettled
  <2> QED BY <2>1, <2>3, <2>4
<1>3. ASSUME NEW c \in Calls, Compare(c)
      PROVE  JournalInv'
  <2> DEFINE to == IF \/ writer[c].name # journal.file_name_
                      \/ writer[c].size # journal.max_size_
                   THEN "setName" ELSE "log"
  <2>1. Step(c, "compare", to) /\ UNCHANGED journal
    BY <1>3 DEF Compare
  <2>2. Settled => to = "log"
    <3>1. writer[c].at = "compare"
      BY <2>1, StepFacts
    <3> QED BY <3>1 DEF Settled
  <2> HIDE DEF to
  <2>3. WritersAreRecords'
    BY <2>1, StepFacts DEF WritersAreRecords
  <2>4. Settled => Settled'
    BY <2>1, <2>2, StepFacts, WriterPreservesSettled
  <2>5. changes' = changes
    BY <2>1, StepFacts
  <2> QED BY <2>3, <2>4, <2>5
<1>4. ASSUME NEW c \in Calls, SetName(c) \/ SetSize(c) \/ MakeSink(c) \/ MakeLogger(c)
      PROVE  JournalInv'
  <2>1. \/ Step(c, "setName", "setSize") \/ Step(c, "setSize", "makeSink")
        \/ Step(c, "makeSink", "makeLogger") \/ Step(c, "makeLogger", "log")
    BY <1>4 DEF SetName, SetSize, MakeSink, MakeLogger
  <2>2. DOMAIN journal' = {"file_name_", "max_size_", "sink_", "logger_"}
    BY <1>4, WriteFacts
  <2>3. WritersAreRecords' /\ changes' = changes
    BY <2>1, <2>2, StepFacts DEF WritersAreRecords
  <2>4. Updating(c)
    BY <2>1, StepFacts DEF Updating
  <2> QED BY <2>3, <2>4 DEF Settled
<1>5. ASSUME NEW c \in Calls, Log(c) \/ LoseRecord(c)
      PROVE  JournalInv'
  <2>1. Step(c, "log", "done") /\ UNCHANGED journal
    BY <1>5 DEF Log, LoseRecord
  <2>2. WritersAreRecords' /\ changes' = changes
    BY <2>1, StepFacts DEF WritersAreRecords
  <2>3. Settled => Settled'
    BY <2>1, StepFacts, WriterPreservesSettled
  <2> QED BY <2>2, <2>3
<1>6. CASE Crash \/ UNCHANGED vars
  BY <1>6 DEF Crash, vars, WritersAreRecords, Settled, Updating
<1>7. CASE ChangeConfig
  BY <1>7 DEF ChangeConfig, WritersAreRecords
<1> QED BY <1>1, <1>2, <1>3, <1>4, <1>5, <1>6, <1>7 DEF Next

\* As long as the configuration stays, no thread ever writes a member of the
\* journal, whatever the keys hold: a size below the least one is compared as
\* the size it is read as.
THEOREM RacesNeedAChangeTheorem == Spec => []RacesNeedAChange
<1>1. JournalInv => RacesNeedAChange
  BY DEF JournalInv, WritersAreRecords, Settled, RacesNeedAChange
<1> QED BY <1>1, JournalInvInit, JournalInvStep, PTL DEF Spec

-----------------------------------------------------------------------------
(* The sinks that are replaced.                                            *)

Names == FileNames \cup {Missing}

NamesTyped ==
    /\ config \in Configs
    /\ journal.file_name_ \in Names
    /\ \A c \in Calls : writer[c].name \in Names
    /\ file_of \in Seq(Names)
    /\ journal.sink_ \in 1..Len(file_of)

\* Between MakeSink and MakeLogger the core has the sink that is new and the one
\* the logger still holds, and otherwise that of the journal alone.
SinksInUse ==
    /\ ~Race
    /\ (\E c \in Calls : writer[c].at = "makeLogger") =>
          core = {journal.sink_, journal.logger_} /\ journal.sink_ # journal.logger_
    /\ (\A c \in Calls : writer[c].at # "makeLogger") =>
          core = {journal.sink_} /\ journal.logger_ = journal.sink_

SinkInv == WritersAreRecords /\ NamesTyped /\ (~raced => SinksInUse)

LEMMA SinkInvInit == Init => SinkInv
<1> SUFFICES ASSUME Init PROVE SinkInv
  OBVIOUS
<1>1. WritersAreRecords
  BY DEF Init, WritersAreRecords
<1>2. /\ journal.file_name_ = ReadFileName(config, kDefaultFileName_)
      /\ journal.sink_ = 1 /\ journal.logger_ = 1
      /\ config \in Configs
      /\ file_of = <<journal.file_name_>>
      /\ core = {1}
  BY DEF Init, AddSink
<1>3. \A c \in Calls : writer[c].at = "idle" /\ writer[c].name = Missing
  BY DEF Init
<1>4. journal.file_name_ \in Names
  BY <1>2, JournalAssumption DEF ReadFileName, Configs, Names
<1>5. NamesTyped
  BY <1>2, <1>3, <1>4 DEF NamesTyped, Names
<1>6. SinksInUse
  BY <1>2, <1>3 DEF SinksInUse, Race, Updating
<1> QED BY <1>1, <1>5, <1>6 DEF SinkInv

\* A thread goes on to a step other than "makeLogger" from another one.
LEMMA WriterPreservesSinks ==
    ASSUME WritersAreRecords, SinksInUse, ~Race', NEW c \in Calls,
           journal'.sink_ = journal.sink_, journal'.logger_ = journal.logger_,
           core' = core,
           \A d \in Calls \ {c} : writer'[d].at = writer[d].at,
           writer[c].at # "makeLogger", writer'[c].at # "makeLogger"
    PROVE  SinksInUse'
<1>1. \A d \in Calls : writer'[d].at = "makeLogger" <=> writer[d].at = "makeLogger"
  OBVIOUS
<1> QED BY <1>1 DEF SinksInUse

LEMMA SinkInvStep ==
    ASSUME SinkInv, [Next]_vars
    PROVE  SinkInv'
<1> USE DEF SinkInv
<1>1. ASSUME NEW c \in Calls, AddRecord(c) \/ ReadKeys(c)
      PROVE  SinkInv'
  <2>1. /\ UNCHANGED <<config, journal, core, file_of, changes, crashed>>
        /\ raced' = (raced \/ Race') /\ raced' \in BOOLEAN
        /\ DOMAIN writer' = Calls
        /\ \A d \in Calls \ {c} : writer'[d] = writer[d]
        /\ DOMAIN writer'[c] = {"at", "name", "size", "seen"}
    BY <1>1 DEF AddRecord, ReadKeys, Unlogged, WritersAreRecords
  <2>2. /\ writer[c].at # "makeLogger" /\ writer'[c].at # "makeLogger"
        /\ writer'[c].name \in {writer[c].name, ReadFileName(config, journal.file_name_)}
    <3>1. CASE AddRecord(c)
      BY <3>1 DEF AddRecord, WritersAreRecords
    <3>2. CASE ReadKeys(c)
      BY <3>2 DEF ReadKeys, WritersAreRecords
    <3> QED BY <1>1, <3>1, <3>2
  <2>3. ReadFileName(config, journal.file_name_) \in Names
    BY DEF NamesTyped, Configs, ReadFileName, Names
  <2>4. WritersAreRecords'
    BY <2>1 DEF WritersAreRecords
  <2>5. NamesTyped'
    BY <2>1, <2>2, <2>3 DEF NamesTyped
  <2>6. ~raced' => SinksInUse'
    <3> SUFFICES ASSUME ~raced' PROVE SinksInUse'
      OBVIOUS
    <3>1. ~raced /\ ~Race'
      BY <2>1
    <3> QED BY <2>1, <2>2, <3>1, WriterPreservesSinks
  <2> QED BY <2>4, <2>5, <2>6
<1>2. ASSUME NEW c \in Calls, NEW from, NEW to, Step(c, from, to),
             from # "makeLogger", to # "makeLogger",
             UNCHANGED <<core, file_of>>,
             DOMAIN journal' = DOMAIN journal,
             journal'.file_name_ \in Names,
             journal'.sink_ = journal.sink_, journal'.logger_ = journal.logger_
      PROVE  SinkInv'
  <2>1. WritersAreRecords'
    BY <1>2, StepFacts DEF WritersAreRecords
  <2>2. NamesTyped'
    BY <1>2, StepFacts DEF NamesTyped
  <2>3. ~raced' => SinksInUse'
    <3> SUFFICES ASSUME ~raced' PROVE SinksInUse'
      OBVIOUS
    <3>1. ~raced /\ ~Race'
      BY <1>2, StepFacts
    <3> QED BY <1>2, <3>1, StepFacts, WriterPreservesSinks
  <2> QED BY <2>1, <2>2, <2>3
<1>3. ASSUME NEW c \in Calls, Compare(c) \/ Log(c) \/ LoseRecord(c)
      PROVE  SinkInv'
  <2>1. \E from \in {"compare", "log"}, to \in {"setName", "log", "done"} : Step(c, from, to)
    BY <1>3 DEF Compare, Log, LoseRecord
  <2>2. UNCHANGED <<journal, core, file_of>>
    BY <1>3 DEF Compare, Log, LoseRecord, Unlogged
  <2> QED BY <2>1, <2>2, <1>2 DEF NamesTyped
<1>4. ASSUME NEW c \in Calls, SetName(c) \/ SetSize(c)
      PROVE  SinkInv'
  <2>1. Step(c, "setName", "setSize") \/ Step(c, "setSize", "makeSink")
    BY <1>4 DEF SetName, SetSize
  <2>2. UNCHANGED <<core, file_of>>
    BY <1>4 DEF SetName, SetSize, Unlogged
  <2>3. /\ DOMAIN journal' = DOMAIN journal
        /\ journal'.file_name_ \in Names
        /\ journal'.sink_ = journal.sink_ /\ journal'.logger_ = journal.logger_
    BY <1>4, WriteFacts DEF WritersAreRecords, NamesTyped
  <2> QED BY <2>1, <2>2, <2>3, <1>2
<1>5. ASSUME NEW c \in Calls, MakeSink(c)
      PROVE  SinkInv'
  <2> DEFINE sink == Len(file_of) + 1
  <2>1. /\ Step(c, "makeSink", "makeLogger")
        /\ core' = (core \cup {sink}) \ ({journal.sink_} \ {journal.logger_})
        /\ file_of' = Append(file_of, journal.file_name_)
    BY <1>5 DEF MakeSink, AddSink, ReleaseSink
  <2>2. /\ DOMAIN journal' = DOMAIN journal
        /\ journal'.file_name_ = journal.file_name_
        /\ journal'.sink_ = sink /\ journal'.logger_ = journal.logger_
    BY <1>5, WriteFacts DEF WritersAreRecords
  <2>3. /\ file_of' \in Seq(Names) /\ Len(file_of') = sink
        /\ sink \in 1..Len(file_of') /\ sink # journal.sink_
    BY <2>1 DEF NamesTyped
  <2> HIDE DEF sink
  <2>4. WritersAreRecords'
    BY <2>1, <2>2, StepFacts DEF WritersAreRecords
  <2>5. NamesTyped'
    BY <2>1, <2>2, <2>3, StepFacts DEF NamesTyped
  <2>6. ~raced' => SinksInUse'
    <3> SUFFICES ASSUME ~raced' PROVE SinksInUse'
      OBVIOUS
    <3>1. ~raced /\ ~Race'
      BY <2>1, StepFacts
    <3>2. \A d \in Calls : writer[d].at # "makeLogger"
      <4>1. writer[c].at = "makeSink"
        BY <2>1, StepFacts
      <4> QED BY <3>1, <4>1 DEF SinksInUse, Race, Updating, Inside
    <3>3. core = {journal.sink_} /\ journal.logger_ = journal.sink_
      BY <3>1, <3>2 DEF SinksInUse
    <3>4. core' = {sink, journal.logger_} /\ sink # journal.logger_
      BY <2>1, <2>3, <3>3
    <3>5. writer'[c].at = "makeLogger"
      BY <2>1, StepFacts
    <3> QED BY <2>2, <3>1, <3>4, <3>5 DEF SinksInUse
  <2> QED BY <2>4, <2>5, <2>6
<1>6. ASSUME NEW c \in Calls, MakeLogger(c)
      PROVE  SinkInv'
  <2>1. /\ Step(c, "makeLogger", "log")
        /\ core' = core \ ({journal.logger_} \ {journal.sink_})
        /\ file_of' = file_of
    BY <1>6 DEF MakeLogger, ReleaseSink
  <2>2. /\ DOMAIN journal' = DOMAIN journal
        /\ journal'.file_name_ = journal.file_name_
        /\ journal'.sink_ = journal.sink_ /\ journal'.logger_ = journal.sink_
    BY <1>6, WriteFacts DEF WritersAreRecords
  <2>3. WritersAreRecords'
    BY <2>1, <2>2, StepFacts DEF WritersAreRecords
  <2>4. NamesTyped'
    BY <2>1, <2>2, StepFacts DEF NamesTyped
  <2>5. ~raced' => SinksInUse'
    <3> SUFFICES ASSUME ~raced' PROVE SinksInUse'
      OBVIOUS
    <3>1. ~raced /\ ~Race'
      BY <2>1, StepFacts
    <3>2. writer[c].at = "makeLogger" /\ writer'[c].at = "log"
      BY <2>1, StepFacts
    <3>3. core' = {journal.sink_}
      BY <2>1, <3>1, <3>2 DEF SinksInUse
    <3>4. \A d \in Calls \ {c} : writer[d].at # "makeLogger"
      BY <3>1, <3>2 DEF SinksInUse, Race, Updating, Inside
    <3>5. \A d \in Calls : writer'[d].at # "makeLogger"
      BY <2>1, <3>2, <3>4, StepFacts
    <3> QED BY <2>2, <3>1, <3>3, <3>5 DEF SinksInUse
  <2> QED BY <2>3, <2>4, <2>5
<1>7. CASE Crash \/ UNCHANGED vars
  <2>1. UNCHANGED <<config, journal, core, file_of, writer, changes, raced>>
    BY <1>7 DEF Crash, vars
  <2>2. crashed' \in BOOLEAN
    BY <1>7 DEF Crash, vars, WritersAreRecords
  <2>3. WritersAreRecords' /\ NamesTyped'
    BY <2>1, <2>2 DEF WritersAreRecords, NamesTyped
  <2>4. SinksInUse => SinksInUse'
    BY <2>1 DEF SinksInUse, Race, Updating, Inside
  <2> QED BY <2>1, <2>3, <2>4
<1>8. CASE ChangeConfig
  <2>1. /\ UNCHANGED <<journal, core, file_of, raced, crashed>>
        /\ config' \in Configs /\ changes' = changes + 1
    BY <1>8 DEF ChangeConfig
  <2>2. /\ DOMAIN writer' = Calls
        /\ \A c \in Calls : /\ DOMAIN writer'[c] = DOMAIN writer[c]
                             /\ writer'[c].at = writer[c].at
                             /\ writer'[c].name = writer[c].name
    BY <1>8 DEF ChangeConfig, WritersAreRecords
  <2>3. WritersAreRecords' /\ NamesTyped'
    BY <2>1, <2>2 DEF WritersAreRecords, NamesTyped
  <2>4. SinksInUse => SinksInUse'
    <3>1. Race' <=> Race
      BY <2>2 DEF Race, Updating, Inside
    <3> QED BY <2>1, <2>2, <3>1 DEF SinksInUse
  <2> QED BY <2>1, <2>3, <2>4
<1> QED BY <1>1, <1>3, <1>4, <1>5, <1>6, <1>7, <1>8 DEF Next

\* When every thread has left AddRecord and none ran into another, each sink that
\* UpdateSink replaced has been taken out of the core.
THEOREM SinksAreReleasedTheorem == Spec => []SinksAreReleased
<1>1. SinkInv => SinksAreReleased
  BY DEF SinkInv, SinksInUse, SinksAreReleased, Inside
<1> QED BY <1>1, SinkInvInit, SinkInvStep, PTL DEF Spec

-----------------------------------------------------------------------------
(* The records.  At most one sink accepts a record, whatever has raced, and *)
(* a record is written once, so that two lines of one call cannot be.  That *)
(* there is one needs to know which file the sink of the logger appends to *)
(* (NamesInUse): the one whose name the thread has read, or found.         *)

Found(c, f) == {i \in DOMAIN lines[f] : lines[f][i].call = c}

Line == {FormatCallDetailedRecord(c) : c \in Calls}

\* What is in a file has been logged, and once.
LinesFit ==
    /\ lines \in [FileNames -> Seq(Line)]
    /\ \A c \in Calls : writer[c].at # "done" => \A f \in FileNames : Found(c, f) = {}
    /\ \A c \in Calls : \A f, g \in FileNames : \A i \in Found(c, f), j \in Found(c, g) :
          f = g /\ i = j

\* What a thread has read of the name of the file, and what the journal has.
NameFits(c) ==
    /\ writer[c].seen \subseteq FileNames
    /\ writer[c].at = "readName" =>
          ReadFileName(config, journal.file_name_) \in writer[c].seen
    /\ writer[c].at \in {"readSize", "compare", "setName", "setSize", "makeSink",
                         "makeLogger", "log"} => writer[c].name \in writer[c].seen
    /\ writer[c].at \in {"setSize", "makeSink", "makeLogger", "log"} =>
          writer[c].name = journal.file_name_

NamesInUse ==
    /\ journal.file_name_ \in FileNames
    /\ \A c \in Calls : NameFits(c)
    /\ (\A c \in Calls : writer[c].at \notin {"setSize", "makeSink"}) =>
          file_of[journal.sink_] = journal.file_name_

Recorded ==
    \A c \in Calls : writer[c].at = "done" =>
        \E f \in writer[c].seen : Found(c, f) # {}

RecordInv ==
    /\ SinkInv
    /\ LinesFit
    /\ ~raced => NamesInUse /\ Recorded

LEMMA RecordInvInit == Init => RecordInv
<1> SUFFICES ASSUME Init PROVE RecordInv
  OBVIOUS
<1>1. SinkInv
  BY SinkInvInit
<1>2. /\ journal.file_name_ = ReadFileName(config, kDefaultFileName_)
      /\ journal.sink_ = 1 /\ file_of = <<journal.file_name_>>
      /\ config \in Configs
      /\ \A c \in Calls : writer[c].at = "idle" /\ writer[c].seen = {}
      /\ lines = [f \in FileNames |-> <<>>]
  BY DEF Init
<1>3. LinesFit
  <2>1. \A c \in Calls, f \in FileNames : Found(c, f) = {}
    BY <1>2 DEF Found
  <2>2. lines \in [FileNames -> Seq(Line)]
    BY <1>2
  <2> QED BY <2>1, <2>2 DEF LinesFit
<1>4. journal.file_name_ \in FileNames
  BY <1>2, JournalAssumption DEF ReadFileName, Configs
<1>5. NamesInUse /\ Recorded
  BY <1>2, <1>4 DEF NamesInUse, NameFits, Recorded
<1> QED BY <1>1, <1>3, <1>5 DEF RecordInv

\* The file the configuration names, or the one in use.
LEMMA ReadNames ==
    ASSUME NEW c \in Configs, NEW name \in FileNames
    PROVE  ReadFileName(c, name) \in FileNames
BY DEF Configs, ReadFileName

\* A step that logs nothing and in which no thread ends.
LEMMA LinesStay ==
    ASSUME LinesFit, NEW c \in Calls, lines' = lines,
           \A d \in Calls \ {c} : writer'[d] = writer[d],
           writer[c].at # "done"
    PROVE  LinesFit'
<1>1. \A d, f : Found(d, f)' = Found(d, f)
  BY DEF Found
<1>2. \A d \in Calls : writer'[d].at # "done" => writer[d].at # "done"
  OBVIOUS
<1> QED BY <1>1, <1>2 DEF LinesFit

\* ... and in which no other thread is touched.
LEMMA RecordedStays ==
    ASSUME Recorded, NEW c \in Calls, lines' = lines,
           \A d \in Calls \ {c} : writer'[d] = writer[d],
           writer'[c].at # "done"
    PROVE  Recorded'
<1>1. \A d, f : Found(d, f)' = Found(d, f)
  BY DEF Found
<1> QED BY <1>1 DEF Recorded

\* A step of a thread that changes neither the names nor the sinks.
LEMMA NamesStay ==
    ASSUME NamesInUse, NEW c \in Calls,
           UNCHANGED <<config, journal, file_of>>,
           \A d \in Calls \ {c} : writer'[d] = writer[d],
           NameFits(c)',
           writer'[c].at \notin {"setSize", "makeSink"},
           writer[c].at \notin {"setSize", "makeSink"}
    PROVE  NamesInUse'
<1>1. \A d \in Calls : NameFits(d)'
  BY DEF NamesInUse, NameFits
<1>2. \A d \in Calls : writer'[d].at \in {"setSize", "makeSink"} <=>
                       writer[d].at \in {"setSize", "makeSink"}
  OBVIOUS
<1> QED BY <1>1, <1>2 DEF NamesInUse

\* While c writes a member no other thread is inside, unless they have raced.
LEMMA WriterIsAlone ==
    ASSUME ~Race, NEW c \in Calls, Updating(c)
    PROVE  \A d \in Calls \ {c} : writer[d].at \in {"idle", "done"}
BY DEF Race, Inside

LEMMA RecordInvStep ==
    ASSUME RecordInv, [Next]_vars
    PROVE  RecordInv'
<1>0. SinkInv /\ SinkInv' /\ WritersAreRecords /\ NamesTyped /\ LinesFit
  BY SinkInvStep DEF RecordInv, SinkInv
<1>1. ASSUME NEW c \in Calls, AddRecord(c)
      PROVE  RecordInv'
  <2>1. /\ UNCHANGED <<config, journal, core, file_of, lines>>
        /\ writer[c].at = "idle"
        /\ \A d \in Calls \ {c} : writer'[d] = writer[d]
        /\ writer'[c].at = "readName"
        /\ writer'[c].seen = {ReadFileName(config, journal.file_name_)}
        /\ raced' = (raced \/ Race')
    BY <1>0, <1>1 DEF AddRecord, Unlogged, WritersAreRecords
  <2>2. ASSUME NamesInUse PROVE NameFits(c)'
    <3>1. ReadFileName(config, journal.file_name_) \in FileNames
      BY <1>0, <2>2, ReadNames DEF NamesTyped, NamesInUse
    <3> QED BY <2>1, <3>1 DEF NameFits
  <2>3. LinesFit' /\ (Recorded => Recorded') /\ (NamesInUse => NamesInUse')
    BY <1>0, <2>1, <2>2, LinesStay, RecordedStays, NamesStay
  <2> QED BY <1>0, <2>1, <2>3 DEF RecordInv
<1>2. ASSUME NEW c \in Calls, ReadKeys(c)
      PROVE  RecordInv'
  <2>1. /\ UNCHANGED <<config, journal, core, file_of, lines>>
        /\ writer[c].at \in {"readName", "readSize"}
        /\ \A d \in Calls \ {c} : writer'[d] = writer[d]
        /\ writer'[c].seen = writer[c].seen
        /\ \/ /\ writer[c].at = "readName" /\ writer'[c].at = "readSize"
              /\ writer'[c].name = ReadFileName(config, journal.file_name_)
           \/ /\ writer[c].at = "readSize" /\ writer'[c].at = "compare"
              /\ writer'[c].name = writer[c].name
        /\ raced' = (raced \/ Race')
    BY <1>0, <1>2 DEF ReadKeys, Unlogged, WritersAreRecords
  <2>2. ASSUME NamesInUse PROVE NameFits(c)'
    BY <2>1, <2>2 DEF NameFits, NamesInUse
  <2>3. LinesFit' /\ (Recorded => Recorded') /\ (NamesInUse => NamesInUse')
    BY <1>0, <2>1, <2>2, LinesStay, RecordedStays, NamesStay
  <2> QED BY <1>0, <2>1, <2>3 DEF RecordInv
<1>3. ASSUME NEW c \in Calls, Compare(c)
      PROVE  RecordInv'
  <2> DEFINE to == IF \/ writer[c].name # journal.file_name_
                      \/ writer[c].size # journal.max_size_
                   THEN "setName" ELSE "log"
  <2>1. Step(c, "compare", to) /\ UNCHANGED <<journal, core, file_of, lines>>
    BY <1>3 DEF Compare, Unlogged
  <2>2. to \in {"setName", "log"} /\ (to = "log" => writer[c].name = journal.file_name_)
    OBVIOUS
  <2> HIDE DEF to
  <2>3. /\ writer[c].at = "compare" /\ config' = config
        /\ \A d \in Calls \ {c} : writer'[d] = writer[d]
        /\ writer'[c].at = to /\ writer'[c].name = writer[c].name
        /\ raced' = (raced \/ Race')
    BY <1>0, <2>1, StepFacts
  <2>4. writer'[c].seen = writer[c].seen
    BY <1>0, <2>1 DEF Step, WritersAreRecords
  <2>5. ASSUME NamesInUse PROVE NameFits(c)'
    BY <2>1, <2>2, <2>3, <2>4, <2>5 DEF NameFits, NamesInUse
  <2>6. LinesFit' /\ (Recorded => Recorded') /\ (NamesInUse => NamesInUse')
    BY <1>0, <2>1, <2>2, <2>3, <2>5, LinesStay, RecordedStays, NamesStay
  <2> QED BY <1>0, <2>3, <2>6 DEF RecordInv
<1>4. ASSUME NEW c \in Calls, SetName(c) \/ SetSize(c) \/ MakeSink(c) \/ MakeLogger(c)
      PROVE  RecordInv'
  <2>1. \E from \in {"setName", "setSize", "makeSink", "makeLogger"},
           to \in {"setSize", "makeSink", "makeLogger", "log"} : Step(c, from, to)
    BY <1>4 DEF SetName, SetSize, MakeSink, MakeLogger
  <2>2. /\ Updating(c) /\ writer[c].at # "done" /\ writer'[c].at # "done"
        /\ config' = config
        /\ \A d \in Calls \ {c} : writer'[d] = writer[d]
        /\ writer'[c].name = writer[c].name
        /\ raced' = (raced \/ Race') /\ raced' \in BOOLEAN
    BY <1>0, <2>1, StepFacts DEF Updating
  <2>3. writer'[c].seen = writer[c].seen
    BY <1>0, <2>1 DEF Step, WritersAreRecords
  <2>4. lines' = lines
    BY <1>4 DEF SetName, SetSize, MakeSink, MakeLogger, Unlogged
  <2>5. LinesFit' /\ (Recorded => Recorded')
    BY <1>0, <2>2, <2>4, LinesStay, RecordedStays
  <2>6. ASSUME ~raced' PROVE NamesInUse'
    <3>1. ~raced /\ ~Race
      BY <1>0, <2>2, <2>6 DEF SinkInv, SinksInUse
    <3>2. NamesInUse /\ NameFits(c)
      BY <3>1 DEF RecordInv, NamesInUse
    <3>3. \A d \in Calls \ {c} : writer[d].at \in {"idle", "done"}
      BY <2>2, <3>1, WriterIsAlone
    <3>4. \A d \in Calls \ {c} : NameFits(d)'
      BY <2>2, <3>2, <3>3 DEF NamesInUse, NameFits
    <3>5. ASSUME journal'.file_name_ = writer[c].name,
                 writer'[c].at \in {"setSize", "makeSink", "makeLogger", "log"}
          PROVE  /\ \A d \in Calls : NameFits(d)'
                 /\ journal'.file_name_ \in FileNames
      <4>1. writer[c].at \in {"setName", "setSize", "makeSink", "makeLogger"}
        BY <2>2 DEF Updating
      <4>2. writer[c].name \in writer[c].seen /\ writer[c].seen \subseteq FileNames
        BY <3>2, <4>1 DEF NameFits
      <4>3. NameFits(c)'
        BY <2>2, <2>3, <3>5, <4>2 DEF NameFits
      <4> QED BY <3>4, <3>5, <4>2, <4>3
    <3>6. CASE SetName(c)
      <4>1. writer'[c].at = "setSize" /\ journal'.file_name_ = writer[c].name
        BY <1>0, <3>6, StepFacts DEF SetName, WritersAreRecords
      <4> QED BY <3>5, <4>1 DEF NamesInUse
    <3>7. CASE SetSize(c)
      <4>1. writer[c].at = "setSize" /\ writer'[c].at = "makeSink"
        BY <1>0, <3>7, StepFacts DEF SetSize
      <4>2. journal'.file_name_ = writer[c].name
        BY <1>0, <3>2, <3>7, <4>1, WriteFacts DEF NameFits
      <4> QED BY <3>5, <4>1, <4>2 DEF NamesInUse
    <3>8. CASE MakeSink(c)
      <4>1. writer[c].at = "makeSink" /\ writer'[c].at = "makeLogger"
        BY <1>0, <3>8, StepFacts DEF MakeSink
      <4>2. /\ journal'.file_name_ = journal.file_name_
            /\ journal'.sink_ = Len(file_of) + 1
            /\ file_of' = Append(file_of, journal.file_name_)
        BY <1>0, <3>8, WriteFacts DEF MakeSink
      <4>3. journal'.file_name_ = writer[c].name
        BY <3>2, <4>1, <4>2 DEF NameFits
      <4>4. file_of'[journal'.sink_] = journal'.file_name_
        BY <1>0, <4>2 DEF NamesTyped
      <4> QED BY <3>5, <4>1, <4>3, <4>4 DEF NamesInUse
    <3>9. CASE MakeLogger(c)
      <4>1. writer[c].at = "makeLogger" /\ writer'[c].at = "log"
        BY <1>0, <3>9, StepFacts DEF MakeLogger
      <4>2. /\ journal'.file_name_ = journal.file_name_
            /\ journal'.sink_ = journal.sink_ /\ file_of' = file_of
        BY <1>0, <3>9, WriteFacts DEF MakeLogger
      <4>3. journal'.file_name_ = writer[c].name
        BY <3>2, <4>1, <4>2 DEF NameFits
      <4>4. \A d \in Calls : writer[d].at \notin {"setSize", "makeSink"}
        BY <3>3, <4>1
      <4>5. file_of'[journal'.sink_] = journal'.file_name_
        BY <3>2, <4>2, <4>4 DEF NamesInUse
      <4> QED BY <3>5, <4>1, <4>3, <4>5 DEF NamesInUse
    <3> QED BY <1>4, <3>6, <3>7, <3>8, <3>9
  <2>7. ~raced' => ~raced
    BY <2>2
  <2> QED BY <1>0, <2>5, <2>6, <2>7 DEF RecordInv
<1>5. ASSUME NEW c \in Calls, Log(c) \/ LoseRecord(c)
      PROVE  RecordInv'
  <2>1. Step(c, "log", "done") /\ UNCHANGED <<journal, core, file_of>>
    BY <1>5 DEF Log, LoseRecord, Unlogged
  <2>2. /\ writer[c].at = "log" /\ writer'[c].at = "done" /\ config' = config
        /\ \A d \in Calls \ {c} : writer'[d] = writer[d]
        /\ raced' = (raced \/ Race') /\ raced' \in BOOLEAN
    BY <1>0, <2>1, StepFacts
  <2>3. writer'[c].seen = writer[c].seen
    BY <1>0, <2>1 DEF Step, WritersAreRecords
  <2>4. ASSUME NamesInUse PROVE NamesInUse'
    <3>1. NameFits(c)'
      BY <2>1, <2>2, <2>3, <2>4 DEF NameFits, NamesInUse
    <3> QED BY <2>1, <2>2, <2>4, <3>1, NamesStay
  <2>5. ~raced' => ~raced
    BY <2>2
  <2>6. CASE LoseRecord(c)
    <3>1. lines' = lines /\ raced /\ raced'
      BY <2>2, <2>6 DEF LoseRecord, Unlogged
    <3>2. LinesFit'
      BY <1>0, <2>2, <3>1, LinesStay
    <3> QED BY <1>0, <3>1, <3>2 DEF RecordInv
  <2>7. CASE Log(c)
    <3> DEFINE files == {file_of[sink] :
                    sink \in {t \in core : Accepts(t, Info(journal.logger_))}}
               line == FormatCallDetailedRecord(c)
    <3>1. lines' = [f \in FileNames |-> IF f \in files THEN Append(lines[f], line)
                                        ELSE lines[f]]
      BY <2>7 DEF Log
    <3>2. \A f \in files : f = file_of[journal.logger_]
      BY DEF Accepts, Info
    <3>3. line \in Line /\ line.call = c
      BY DEF Line, FormatCallDetailedRecord
    <3>4. journal.logger_ \in core => file_of[journal.logger_] \in files
      <4>1. Accepts(journal.logger_, Info(journal.logger_))
        BY DEF Accepts, Info, kTrace, kInfo
      <4> QED BY <4>1
    <3> HIDE DEF files, line
    <3>5. lines \in [FileNames -> Seq(Line)] /\ \A f \in FileNames : Found(c, f) = {}
      BY <1>0, <2>2 DEF LinesFit
    <3>6. lines' \in [FileNames -> Seq(Line)]
      BY <3>1, <3>3, <3>5
    <3>7. \A f \in FileNames, d \in Calls \ {c} : Found(d, f)' = Found(d, f)
      <4> TAKE f \in FileNames, d \in Calls \ {c}
      <4>1. CASE f \notin files
        BY <3>1, <4>1 DEF Found
      <4>2. CASE f \in files
        <5>1. lines'[f] = Append(lines[f], line) /\ lines[f] \in Seq(Line)
          BY <3>1, <3>5, <4>2
        <5>2. /\ DOMAIN lines'[f] = DOMAIN lines[f] \cup {Len(lines[f]) + 1}
              /\ \A i \in DOMAIN lines[f] : lines'[f][i] = lines[f][i]
              /\ lines'[f][Len(lines[f]) + 1] = line
          BY <3>3, <5>1
        <5> QED BY <3>3, <5>2 DEF Found
      <4> QED BY <4>1, <4>2
    <3>8. \A f \in FileNames : Found(c, f)' =
              IF f \in files THEN {Len(lines[f]) + 1} ELSE {}
      <4> TAKE f \in FileNames
      <4>1. CASE f \notin files
        BY <3>1, <3>5, <4>1 DEF Found
      <4>2. CASE f \in files
        <5>1. lines'[f] = Append(lines[f], line) /\ lines[f] \in Seq(Line)
          BY <3>1, <3>5, <4>2
        <5>2. /\ DOMAIN lines'[f] = DOMAIN lines[f] \cup {Len(lines[f]) + 1}
              /\ \A i \in DOMAIN lines[f] : lines'[f][i] = lines[f][i]
              /\ lines'[f][Len(lines[f]) + 1] = line
          BY <3>3, <5>1
        <5>3. \A i \in DOMAIN lines[f] : lines[f][i].call # c
          BY <3>5 DEF Found
        <5> QED BY <3>3, <4>2, <5>2, <5>3 DEF Found
      <4> QED BY <4>1, <4>2
    <3>9. LinesFit'
      <4>1. \A d \in Calls : writer'[d].at # "done" =>
                \A f \in FileNames : Found(d, f)' = {}
        BY <1>0, <2>2, <3>7 DEF LinesFit
      <4>2. ASSUME NEW d \in Calls, NEW f \in FileNames, NEW g \in FileNames,
                   NEW i \in Found(d, f)', NEW j \in Found(d, g)'
            PROVE  f = g /\ i = j
        <5>1. CASE d = c
          BY <3>2, <3>8, <4>2, <5>1
        <5>2. CASE d # c
          <6>1. i \in Found(d, f) /\ j \in Found(d, g)
            BY <3>7, <4>2, <5>2
          <6> QED BY <1>0, <6>1 DEF LinesFit
        <5> QED BY <5>1, <5>2
      <4> QED BY <3>6, <4>1, <4>2 DEF LinesFit
    <3>10. ASSUME ~raced', NamesInUse, Recorded PROVE Recorded'
      <4>1. ~raced /\ SinksInUse /\ ~Race
        BY <1>0, <2>5, <3>10 DEF SinkInv, SinksInUse
      <4>2. \A d \in Calls : ~Updating(d)
        <5>1. Inside(c) /\ ~Updating(c)
          BY <2>2 DEF Inside, Updating
        <5> QED BY <4>1, <5>1 DEF Race
      <4>3. journal.logger_ = journal.sink_ /\ journal.logger_ \in core
        BY <4>1, <4>2 DEF SinksInUse, Updating
      <4>4. file_of[journal.logger_] = journal.file_name_
        BY <3>10, <4>2, <4>3 DEF NamesInUse, Updating
      <4>5. journal.file_name_ \in writer[c].seen /\ journal.file_name_ \in FileNames
        BY <2>2, <3>10 DEF NamesInUse, NameFits
      <4>6. Found(c, journal.file_name_)' # {}
        BY <2>1, <3>4, <3>8, <4>3, <4>4, <4>5
      <4>7. \A d \in Calls \ {c} : writer'[d].at = "done" =>
                \E f \in writer'[d].seen : Found(d, f)' # {}
        <5> TAKE d \in Calls \ {c}
        <5> HAVE writer'[d].at = "done"
        <5>1. PICK f \in writer[d].seen : Found(d, f) # {}
          BY <2>2, <3>10 DEF Recorded
        <5>2. f \in FileNames
          BY <3>10, <5>1 DEF NamesInUse, NameFits
        <5>3. Found(d, f)' # {} /\ f \in writer'[d].seen
          BY <2>2, <3>7, <5>1, <5>2
        <5> QED BY <5>3
      <4> QED BY <2>1, <2>3, <4>5, <4>6, <4>7 DEF Recorded
    <3> QED BY <1>0, <2>4, <2>5, <3>9, <3>10 DEF RecordInv
  <2> QED BY <1>5, <2>6, <2>7
<1>6. CASE Crash \/ UNCHANGED vars
  <2>1. UNCHANGED <<config, journal, file_of, lines, writer, raced>>
    BY <1>6 DEF Crash, vars
  <2>2. \A d, f : Found(d, f)' = Found(d, f)
    BY <2>1 DEF Found
  <2>3. LinesFit'
    BY <1>0, <2>1, <2>2 DEF LinesFit
  <2>4. NamesInUse /\ Recorded => NamesInUse' /\ Recorded'
    BY <2>1, <2>2 DEF NamesInUse, NameFits, Recorded
  <2> QED BY <1>0, <2>1, <2>3, <2>4 DEF RecordInv
<1>7. CASE ChangeConfig
  <2>1. UNCHANGED <<journal, file_of, lines, raced>> /\ config' \in Configs
    BY <1>7 DEF ChangeConfig
  <2>2. \A c \in Calls :
           /\ writer'[c].at = writer[c].at /\ writer'[c].name = writer[c].name
           /\ writer'[c].seen = IF Inside(c)
                 THEN writer[c].seen \cup {ReadFileName(config', journal.file_name_)}
                 ELSE writer[c].seen
    BY <1>0, <1>7 DEF ChangeConfig, WritersAreRecords
  <2>3. \A d, f : Found(d, f)' = Found(d, f)
    BY <2>1 DEF Found
  <2>4. LinesFit'
    BY <1>0, <2>1, <2>2, <2>3 DEF LinesFit
  <2>5. Recorded => Recorded'
    BY <2>2, <2>3 DEF Recorded
  <2>6. ASSUME NamesInUse PROVE NamesInUse'
    <3>1. ReadFileName(config', journal.file_name_) \in FileNames
      BY <2>1, <2>6, ReadNames DEF NamesInUse
    <3>2. \A c \in Calls : NameFits(c)'
      BY <2>1, <2>2, <2>6, <3>1 DEF NamesInUse, NameFits, Inside
    <3> QED BY <2>1, <2>2, <2>6, <3>2 DEF NamesInUse
  <2> QED BY <1>0, <2>1, <2>4, <2>5, <2>6 DEF RecordInv
<1> QED BY <1>1, <1>2, <1>3, <1>4, <1>5, <1>6, <1>7 DEF Next

\* Whatever the threads and the configuration do, no record is in the journal
\* twice, and unless threads have raced each one that was added is there, in a
\* file that the configuration named while it was added.
THEOREM RecordedOnceTheorem == Spec => []RecordedOnce
<1>1. ASSUME RecordInv PROVE RecordedOnce
  <2> SUFFICES ASSUME NEW c \in Calls, writer[c].at = "done"
               PROVE  /\ \A f, g \in FileNames : \A i \in Found(c, f), j \in Found(c, g) :
                            f = g /\ i = j
                      /\ ~raced => \E f \in writer[c].seen : Found(c, f) # {}
    BY DEF RecordedOnce, Found
  <2> QED BY <1>1 DEF RecordInv, LinesFit, Recorded
<1> QED BY <1>1, RecordInvInit, RecordInvStep, PTL DEF Spec
=============================================================================
