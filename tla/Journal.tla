-------------------------------- MODULE Journal --------------------------------
(***************************************************************************)
(* Journal, with the Sink and the Logger it writes through.  Threads that  *)
(* finish calls add their records without a lock; each first compares what *)
(* the configuration says with what the journal uses, and replaces the     *)
(* sink and the logger when they differ.                                   *)
(*                                                                         *)
(* A step is one access to a member of the journal.  A thread that writes  *)
(* the members while another is inside AddRecord is a data race: from then *)
(* on a record may be lost and the process may crash.                      *)
(***************************************************************************)
EXTENDS Integers, Sequences

CONSTANTS
    Calls,        \* finished calls, each added by a thread of its own
    Serviced,     \* those among them that an operator handled
    FileNames,
    Sizes,        \* values of journal_max_size
    Missing,      \* a key that is not there
    kDefaultFileName_, kDefaultMaxSize_,
    MaxChanges    \* bound: how often the configuration changes

ASSUME JournalAssumption ==
    /\ Serviced \subseteq Calls
    /\ kDefaultFileName_ \in FileNames
    /\ Sizes \subseteq Nat /\ kDefaultMaxSize_ \in Nat \ {0}
    /\ Missing \notin FileNames \cup Nat
    /\ MaxChanges \in Nat

VARIABLES
    config,       \* the two keys the journal reads
    journal,      \* file_name_, max_size_, sink_, and the sink of logger_
    core,         \* the log core: the sinks that are registered in it
    file_of,      \* the file each sink that was ever made appends to
    lines,        \* what each file holds
    writer,       \* the threads inside AddRecord
    changes,
    raced, crashed

vars == <<config, journal, core, file_of, lines, writer, changes, raced, crashed>>

Configs == [file_name : FileNames \cup {Missing}, max_size : Sizes \cup {Missing}]

\* GetProperty and GetNumber: what the journal has is the default, and no size
\* is less than 1.
ReadFileName(c, file_name_) == IF c.file_name = Missing THEN file_name_ ELSE c.file_name

ReadMaxSize(c, max_size_) ==
    IF c.max_size = Missing THEN max_size_
    ELSE IF c.max_size < 1 THEN 1 ELSE c.max_size

\* What the getters of a finished call's record return: a call that was
\* rejected has no operator and neither a start nor a time of service.
Get(call, field) ==
    IF field \in {"arrival", "complete"} \/ call \in Serviced THEN "some" ELSE "nullopt"

\* A record as the line it becomes: what the record does not have is an empty
\* field.
FormatOptional(value) == IF value = "nullopt" THEN "" ELSE "text"
FormatCallDetailedRecord(call) ==
    [call |-> call,
     fields |-> [field \in {"arrival", "complete", "start", "operator", "service_time"}
                    |-> FormatOptional(Get(call, field))]]

\* SeverityLevel, the two levels that matter here.
kTrace == 0
kInfo == 2

\* The filter of a sink, whose level is kTrace, and the records of a logger,
\* whose channel is the id of its sink.  (A mistake for the checks to catch:
\* AcceptsAnyChannel forgets the channel.)
AcceptsAnyChannel(sink, record) == record.severity >= kTrace
Accepts(sink, record) == record.severity >= kTrace /\ record.channel = sink
Info(logger) == [channel |-> logger, severity |-> kInfo]

\* The constructor and the destructor of Sink.  A sink is destroyed when neither
\* sink_ nor a logger holds it.
AddSink(registered, sink) == registered \cup {sink}
ReleaseSink(registered, sink, held) == registered \ ({sink} \ {held})

\* The constructor makes sink 1 and the logger for it.
Init ==
    /\ config \in Configs
    /\ journal = [file_name_ |-> ReadFileName(config, kDefaultFileName_),
                  max_size_ |-> ReadMaxSize(config, kDefaultMaxSize_),
                  sink_ |-> 1, logger_ |-> 1]
    /\ core = AddSink({}, 1)
    /\ file_of = <<journal.file_name_>>
    /\ lines = [f \in FileNames |-> <<>>]
    /\ writer = [c \in Calls |-> [at |-> "idle", name |-> Missing, size |-> Missing,
                                  seen |-> {}]]
    /\ changes = 0
    /\ raced = FALSE /\ crashed = FALSE

-----------------------------------------------------------------------------
(* AddRecord, one access after the other.                                  *)

Inside(c) == writer[c].at \notin {"idle", "done"}
Updating(c) == writer[c].at \in {"setName", "setSize", "makeSink", "makeLogger"}

\* Nothing orders the writes of one thread and what the other reads or writes.
Race == \E c, d \in Calls : c # d /\ Updating(c) /\ Inside(d)

\* Thread c goes from one step to the next.
Step(c, from, to) ==
    /\ writer[c].at = from
    /\ ~crashed
    /\ writer' = [writer EXCEPT ![c].at = to]
    /\ raced' = (raced \/ Race')
    /\ UNCHANGED <<config, changes, crashed>>

Unlogged == UNCHANGED <<core, file_of, lines>>

AddRecord(c) ==
    /\ writer[c].at = "idle" /\ ~crashed
    /\ writer' = [writer EXCEPT ![c] =
          [@ EXCEPT !.at = "readName",
                    !.seen = {ReadFileName(config, journal.file_name_)}]]
    /\ raced' = (raced \/ Race')
    /\ UNCHANGED <<config, changes, crashed, journal>> /\ Unlogged

\* UpdateSink reads the two keys one after the other, ...
ReadKeys(c) ==
    /\ writer[c].at \in {"readName", "readSize"} /\ ~crashed
    /\ writer' = [writer EXCEPT ![c] =
          IF @.at = "readName"
          THEN [@ EXCEPT !.at = "readSize",
                         !.name = ReadFileName(config, journal.file_name_)]
          ELSE [@ EXCEPT !.at = "compare",
                         !.size = ReadMaxSize(config, journal.max_size_)]]
    /\ raced' = (raced \/ Race')
    /\ UNCHANGED <<config, changes, crashed, journal>> /\ Unlogged

\* A mistake for the checks to catch: the size is compared as the file has it.
CompareUnlimited(c) ==
    /\ Step(c, "compare",
            IF \/ writer[c].name # journal.file_name_
               \/ config.max_size \notin {journal.max_size_, Missing}
            THEN "setName" ELSE "log")
    /\ UNCHANGED journal /\ Unlogged

\* ... compares them with what it has, ...
Compare(c) ==
    /\ Step(c, "compare",
            IF \/ writer[c].name # journal.file_name_
               \/ writer[c].size # journal.max_size_
            THEN "setName" ELSE "log")
    /\ UNCHANGED journal /\ Unlogged

\* ... and, when they differ, takes them over and makes
SetName(c) ==
    /\ Step(c, "setName", "setSize")
    /\ journal' = [journal EXCEPT !.file_name_ = writer[c].name]
    /\ Unlogged

SetSize(c) ==
    /\ Step(c, "setSize", "makeSink")
    /\ journal' = [journal EXCEPT !.max_size_ = writer[c].size]
    /\ Unlogged

\* a sink, which registers itself and is unregistered when nobody holds it ...
MakeSink(c) ==
    /\ Step(c, "makeSink", "makeLogger")
    /\ LET sink == Len(file_of) + 1
       IN  /\ journal' = [journal EXCEPT !.sink_ = sink]
           /\ core' = ReleaseSink(AddSink(core, sink), journal.sink_, journal.logger_)
    /\ file_of' = Append(file_of, journal.file_name_)
    /\ UNCHANGED lines

\* A mistake for the checks to catch: the logger is kept.
MakeLoggerNot(c) ==
    /\ Step(c, "makeLogger", "log")
    /\ UNCHANGED journal /\ Unlogged

\* ... and a logger for it; the old logger lets go of its sink.
MakeLogger(c) ==
    /\ Step(c, "makeLogger", "log")
    /\ journal' = [journal EXCEPT !.logger_ = journal.sink_]
    /\ core' = ReleaseSink(core, journal.logger_, journal.sink_)
    /\ UNCHANGED <<file_of, lines>>

\* logger_->Info() << ...: the record goes to the registered sinks that accept
\* it.
Log(c) ==
    /\ Step(c, "log", "done")
    /\ LET files == {file_of[sink] : sink \in {t \in core : Accepts(t, Info(journal.logger_))}}
       IN  lines' = [f \in FileNames |->
              IF f \in files THEN Append(lines[f], FormatCallDetailedRecord(c))
              ELSE lines[f]]
    /\ UNCHANGED <<journal, core, file_of>>

\* What a race may lead to as well: the record is written to an object that is
\* gone, or the process ends.
LoseRecord(c) ==
    /\ raced
    /\ Step(c, "log", "done")
    /\ UNCHANGED journal /\ Unlogged

Crash ==
    /\ raced /\ ~crashed
    /\ crashed' = TRUE
    /\ UNCHANGED <<config, journal, core, file_of, lines, writer, changes, raced>>

-----------------------------------------------------------------------------
\* A new configuration is loaded, as CachedConfiguration describes.
ChangeConfig ==
    /\ changes < MaxChanges /\ ~crashed
    /\ config' \in Configs \ {config}
    /\ changes' = changes + 1
    /\ writer' = [c \in Calls |->
          [writer[c] EXCEPT !.seen =
              IF Inside(c) THEN @ \cup {ReadFileName(config', journal.file_name_)} ELSE @]]
    /\ UNCHANGED <<journal, core, file_of, lines, raced, crashed>>

Next ==
    \/ \E c \in Calls :
          \/ AddRecord(c) \/ ReadKeys(c) \/ Compare(c) \/ SetName(c) \/ SetSize(c)
          \/ MakeSink(c) \/ MakeLogger(c) \/ Log(c) \/ LoseRecord(c)
    \/ Crash
    \/ ChangeConfig

Spec == Init /\ [][Next]_vars

-----------------------------------------------------------------------------
(* Properties.                                                             *)

\* Every record that was added is one line of one file, a file that the
\* configuration named while it was added, however often that changed; after a
\* race it may be missing, and is still there once at most.
RecordedOnce ==
    \A c \in Calls :
        LET found(f) == {i \in DOMAIN lines[f] : lines[f][i].call = c}
        IN  writer[c].at = "done" =>
                /\ \A f, g \in FileNames : \A i \in found(f), j \in found(g) :
                      f = g /\ i = j
                /\ ~raced => \E f \in writer[c].seen : found(f) # {}

\* Threads share the journal safely as long as its configuration stays: only
\* after a change does any of them write a member, whatever the keys hold (none
\* at all, a size below the least one).
RacesNeedAChange == raced => changes > 0

\* When nobody is inside AddRecord the core has the sink of the journal and no
\* other: replaced sinks are gone, with the files they hold open.
SinksAreReleased ==
    (\A c \in Calls : ~Inside(c)) /\ ~raced =>
        core = {journal.sink_}
=============================================================================
