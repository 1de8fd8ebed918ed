------------------------------ MODULE StateFile ------------------------------
(***************************************************************************)
(* The agent state (Uhuru.BOSH.Agent/State.cs): one document in memory,    *)
(* the job read from it, and state.yml on disk.  An apply replaces all     *)
(* three with State.Write; get_state requests overlay status keys on the   *)
(* document in memory and send it; the heartbeat timer reads the job and   *)
(* the document; the process may stop between any two steps and read the   *)
(* file again when it starts.                                              *)
(*                                                                         *)
(* A document is named by the apply that brought it, numbered in the order *)
(* of their Writes (Handler.Lock runs one apply at a time); 0 is the       *)
(* default state of an agent without a file.                               *)
(***************************************************************************)
EXTENDS Naturals

CONSTANTS
  Readers,     \* get_state requests served at the same time
  LastKey,     \* number of the status keys get_state sets, in order
  MaxVersion,  \* bound: number of applies
  Unreadable   \* specs GetCurrentJob or GetCurrentNetworks throw on

ASSUME StateFileAssumption ==
  /\ LastKey \in Nat \ {0}
  /\ MaxVersion \in Nat
  /\ Unreadable \subseteq 1..MaxVersion

VARIABLES
  phase,     \* the agent process: "up", "down", or "failed" to start
  file,      \* state.yml: how much of it is there, whose, with which keys
  data,      \* State.data
  job,       \* the document State.job and State.networks were read from
  keys,      \* status keys SetValue has put on each live document
  writer,    \* the apply inside State.Write, or the last one
  unsettled, \* a Write began since the file was last read or written whole
  readers,   \* the get_state requests
  beat,      \* the heartbeat being built
  reported   \* the latest document the director has heard of

vars == <<phase, file, data, job, keys, writer, unsettled, readers, beat,
          reported>>

Versions == 0..MaxVersion
Keys == 1..LastKey

(* Positions in Apply.ApplyPlan's call of Write and in the reply to it.    *)
WriterSteps == {"idle", "opening", "writing", "assigning", "refreshing",
                "rendering", "rendered", "reopening", "rewriting",
                "answering", "answered"}

(* Where a get_state request is.                                           *)
ReaderSteps == {"idle", "setting", "hashed", "serialising", "reply", "broken"}

ReaderStates ==
  [step : ReaderSteps, next : 1..(LastKey + 1), doc : Versions,
   seen : SUBSET Keys, swapped : BOOLEAN]

IdleReader == [step |-> "idle", next |-> 1, doc |-> 0, seen |-> {},
               swapped |-> FALSE]
IdleBeat == [step |-> "idle", job |-> 0, index |-> 0]

TypeOK ==
  /\ phase \in {"up", "down", "failed"}
  /\ file \in [kind : {"missing", "empty", "torn", "whole"},
               version : Versions, keys : SUBSET Keys]
  /\ data \in Versions
  /\ job \in Versions
  /\ keys \in [Versions -> SUBSET Keys]
  /\ writer \in [step : WriterSteps, version : Versions, seen : SUBSET Keys]
  /\ unsettled \in BOOLEAN
  /\ readers \in [Readers -> ReaderStates]
  /\ beat \in [step : {"idle", "index", "send"}, job : Versions,
               index : Versions]
  /\ reported \in Versions

(* A host on which no agent has run: there is no file, the state is the    *)
(* default one.                                                            *)
Init ==
  /\ phase = "up"
  /\ file = [kind |-> "missing", version |-> 0, keys |-> {}]
  /\ data = 0
  /\ job = 0
  /\ keys = [v \in Versions |-> {}]
  /\ writer = [step |-> "idle", version |-> 0, seen |-> {}]
  /\ unsettled = FALSE
  /\ readers = [r \in Readers |-> IdleReader]
  /\ beat = IdleBeat
  /\ reported = 0

Report(v) == reported' = IF v > reported THEN v ELSE reported

-----------------------------------------------------------------------------
(* State.Write, called by ApplyPlan with the new spec.                     *)

Go(step) == writer' = [writer EXCEPT !.step = step]

memory == <<data, job, keys>>
others == <<readers, beat, reported>>

(* Variant: memory is replaced before the file is.                         *)
BeginInMemory ==
  /\ writer.step = "idle"
  /\ writer.version < MaxVersion
  /\ writer' = [step |-> "opening", version |-> writer.version + 1,
                seen |-> {}]
  /\ unsettled' = TRUE
  /\ data' = writer.version + 1
  /\ UNCHANGED <<phase, file, job, keys, others>>

(* ApplyPlan has come to Config.State.Write(newSpec).                      *)
BeginWrite ==
  /\ writer.step = "idle"
  /\ writer.version < MaxVersion
  /\ writer' = [step |-> "opening", version |-> writer.version + 1,
                seen |-> {}]
  /\ unsettled' = TRUE
  /\ UNCHANGED <<phase, file, memory, others>>

(* Variant: an error of WriteAllText is logged and forgotten.              *)
WriteShrugs ==
  /\ writer.step \in {"opening", "writing", "reopening", "rewriting"}
  /\ IF writer.step \in {"opening", "writing"}
     THEN Go("assigning") /\ UNCHANGED unsettled
     ELSE Go("answering") /\ unsettled' = FALSE
  /\ UNCHANGED <<phase, file, memory, others>>

(* Any call of Write may throw: the apply fails, the rest is not run.      *)
WriteThrows ==
  /\ writer.step \in {"opening", "writing", "reopening", "rewriting"}
  /\ Go("idle")
  /\ UNCHANGED <<phase, file, memory, unsettled, others>>

(* WriteAllText creates the file anew ...                                  *)
TruncateFile ==
  /\ writer.step \in {"opening", "reopening"}
  /\ file' = [file EXCEPT !.kind = "empty"]
  /\ Go(IF writer.step = "opening" THEN "writing" ELSE "rewriting")
  /\ UNCHANGED <<phase, memory, unsettled, others>>

(* ... some of the text reaches it ...                                     *)
WritePart ==
  /\ writer.step \in {"writing", "rewriting"}
  /\ file.kind = "empty"
  /\ file' = [file EXCEPT !.kind = "torn"]
  /\ UNCHANGED <<phase, memory, writer, unsettled, others>>

(* ... and all of it: first the spec as it came ...                        *)
WriteSpec ==
  /\ writer.step = "writing"
  /\ file' = [kind |-> "whole", version |-> writer.version, keys |-> {}]
  /\ Go("assigning")
  /\ UNCHANGED <<phase, memory, unsettled, others>>

(* ... then, at the end of Write, the rendered document.                   *)
WriteDocument ==
  /\ writer.step = "rewriting"
  /\ file' = [kind |-> "whole", version |-> writer.version,
              keys |-> writer.seen]
  /\ unsettled' = FALSE
  /\ Go("answering")
  /\ UNCHANGED <<phase, memory, others>>

(* Variant: the job is read from newState, data is forgotten.              *)
AssignNothing ==
  /\ writer.step = "assigning"
  /\ Go("refreshing")
  /\ UNCHANGED <<phase, file, memory, unsettled, others>>

(* data = newState, without the lock SetValue takes.                       *)
AssignData ==
  /\ writer.step = "assigning"
  /\ data' = writer.version
  /\ readers' = [r \in Readers |-> [readers[r] EXCEPT !.swapped = TRUE]]
  /\ Go("refreshing")
  /\ UNCHANGED <<phase, file, job, keys, unsettled, beat, reported>>

(* job = GetCurrentJob(); networks = GetCurrentNetworks().                 *)
RefreshJob ==
  /\ writer.step = "refreshing"
  /\ writer.version \notin Unreadable
  /\ job' = writer.version
  /\ Go("rendering")
  /\ UNCHANGED <<phase, file, data, keys, unsettled, others>>

(* A spec with a job or a network they cannot read: one of them throws.    *)
RefreshThrows ==
  /\ writer.step = "refreshing"
  /\ writer.version \in Unreadable
  /\ job' \in {job, writer.version}
  /\ Go("idle")
  /\ UNCHANGED <<phase, file, data, keys, unsettled, others>>

(* data.ToString() and, after Write, SerializeObject of the reply, which   *)
(* is the same document: both walk the live collection of its keys.        *)
OpenDocument ==
  /\ \/ writer.step = "rendering" /\ writer' = [writer EXCEPT
          !.step = "rendered", !.seen = keys[writer.version]]
     \/ writer.step = "answering" /\ writer' = [writer EXCEPT
          !.step = "answered", !.seen = keys[writer.version]]
  /\ UNCHANGED <<phase, file, memory, unsettled, others>>

(* A key added during the walk may make it throw.                          *)
CloseDocument ==
  /\ writer.step = "rendered"
  /\ \/ Go("reopening")
     \/ writer.seen # keys[writer.version] /\ Go("idle")
  /\ UNCHANGED <<phase, file, memory, unsettled, others>>

(* The result of the apply, or the exception, is kept for the director.    *)
AnswerApply ==
  /\ writer.step = "answered"
  /\ Go("idle")
  /\ \/ Report(writer.version)
     \/ writer.seen # keys[writer.version] /\ UNCHANGED reported
  /\ UNCHANGED <<phase, file, memory, unsettled, readers, beat>>

Write ==
  /\ phase = "up"
  /\ \/ BeginWrite \/ WriteThrows \/ TruncateFile \/ WritePart \/ WriteSpec
     \/ AssignData \/ RefreshJob \/ RefreshThrows
     \/ OpenDocument \/ CloseDocument \/ WriteDocument \/ AnswerApply

-----------------------------------------------------------------------------
(* get_state (Message/State.cs), on any thread of the pool.                *)

rest == <<phase, file, data, job, writer, unsettled, beat>>

BeginState(r) ==
  /\ readers[r].step = "idle"
  /\ readers' = [readers EXCEPT ![r] = [IdleReader EXCEPT !.step = "setting"]]
  /\ UNCHANGED <<rest, keys, reported>>

(* response.SetValue(key, ...), each under the lock of State, on whatever  *)
(* document is current.  A key that is there already only gets a value.    *)
SetValue(r) ==
  /\ readers[r].step = "setting"
  /\ readers[r].next \in Keys
  /\ keys' = [keys EXCEPT ![data] = @ \cup {readers[r].next}]
  /\ readers' = [readers EXCEPT ![r].next = @ + 1]
  /\ UNCHANGED <<rest, reported>>

(* Variant: the hash is taken before the last key is set.                  *)
ToHashEarly(r) ==
  /\ readers[r].step = "setting"
  /\ readers[r].next >= LastKey
  /\ readers' = [readers EXCEPT ![r].step = "hashed", ![r].doc = data]
  /\ UNCHANGED <<rest, keys, reported>>

(* return response.ToHash(): the document itself, not a copy.              *)
ToHash(r) ==
  /\ readers[r].step = "setting"
  /\ readers[r].next = LastKey + 1
  /\ readers' = [readers EXCEPT ![r].step = "hashed", ![r].doc = data]
  /\ UNCHANGED <<rest, keys, reported>>

(* Handler.Process serialises it, without the lock of State ...            *)
OpenReply(r) ==
  /\ readers[r].step = "hashed"
  /\ readers' = [readers EXCEPT ![r].step = "serialising",
                                ![r].seen = keys[readers[r].doc]]
  /\ UNCHANGED <<rest, keys, reported>>

(* ... and a key added during the walk may make it throw: the agent then   *)
(* decides to restart.                                                     *)
CloseReply(r) ==
  /\ readers[r].step = "serialising"
  /\ \/ readers' = [readers EXCEPT ![r].step = "reply"]
     \/ /\ readers[r].seen # keys[readers[r].doc]
        /\ readers' = [readers EXCEPT ![r].step = "broken"]
  /\ UNCHANGED <<rest, keys, reported>>

(* The reply, or the exception, leaves or is lost.                         *)
SendReply(r) ==
  /\ readers[r].step \in {"reply", "broken"}
  /\ readers' = [readers EXCEPT ![r] = IdleReader]
  /\ \/ readers[r].step = "reply" /\ Report(readers[r].doc)
     \/ UNCHANGED reported
  /\ UNCHANGED <<rest, keys>>

(* GetJobState or GetNtpOffset throws: the exception is the reply.         *)
StateThrows(r) ==
  /\ readers[r].step = "setting"
  /\ readers' = [readers EXCEPT ![r] = IdleReader]
  /\ UNCHANGED <<rest, keys, reported>>

GetState(r) ==
  /\ phase = "up"
  /\ \/ BeginState(r) \/ SetValue(r) \/ ToHash(r) \/ OpenReply(r)
     \/ CloseReply(r) \/ SendReply(r) \/ StateThrows(r)

-----------------------------------------------------------------------------
(* The heartbeat timer: the name of the job, then the index of the hash.   *)

ReadJob ==
  /\ beat.step = "idle"
  /\ beat' = [beat EXCEPT !.step = "index", !.job = job]
  /\ UNCHANGED reported

ReadIndex ==
  /\ beat.step = "index"
  /\ beat' = [beat EXCEPT !.step = "send", !.index = data]
  /\ UNCHANGED reported

SendBeat ==
  /\ beat.step = "send"
  /\ beat' = IdleBeat
  /\ Report(beat.index) \/ UNCHANGED reported

Heartbeat ==
  /\ phase = "up"
  /\ ReadJob \/ ReadIndex \/ SendBeat
  /\ UNCHANGED <<phase, file, memory, writer, unsettled, readers>>

-----------------------------------------------------------------------------
(* The process.                                                            *)

(* It ends at any step: a kill, a shutdown, the host.  Disk keeps what it  *)
(* has.                                                                    *)
Crash ==
  /\ phase = "up"
  /\ phase' = "down"
  /\ Go("idle")
  /\ readers' = [r \in Readers |-> IdleReader]
  /\ beat' = IdleBeat
  /\ UNCHANGED <<file, memory, unsettled, reported>>

(* The file can be parsed and the job and networks in it can be read.  An  *)
(* empty file parses to null, which GetCurrentJob cannot index.            *)
Startable ==
  \/ file.kind = "missing"
  \/ file.kind = "whole" /\ file.version \notin Unreadable

(* Config.Setup: new State(...), which reads the file, or throws and the   *)
(* service does not start.  Starting it again changes nothing.             *)
Start ==
  /\ phase # "up"
  /\ IF Startable
     THEN /\ phase' = "up"
          /\ data' = file.version
          /\ job' = file.version
          /\ keys' = [v \in Versions |->
                        IF v = file.version THEN file.keys ELSE {}]
          /\ unsettled' = FALSE
     ELSE /\ phase' = "failed"
          /\ UNCHANGED <<memory, unsettled>>
  /\ UNCHANGED <<file, writer, readers, beat, reported>>

Next ==
  \/ Write
  \/ \E r \in Readers : GetState(r)
  \/ Heartbeat
  \/ Crash
  \/ Start

Spec == Init /\ [][Next]_vars

-----------------------------------------------------------------------------
(* Properties.                                                             *)

(* What the director has heard of is never taken back: whatever it was     *)
(* told by a get_state reply, a heartbeat or the result of an apply, an    *)
(* agent that runs, crashed and restarted or not, is at that document or   *)
(* at a later one.  It rests on Write saving the spec before data shows it.*)
NeverForgets == phase = "up" => data >= reported

(* A heartbeat never pairs the job of an apply with the index of an        *)
(* earlier one: State.Write replaces data before job and the heartbeat     *)
(* reads job before data.                                                  *)
IndexNotOlderThanJob == beat.step = "send" => beat.index >= beat.job

(* Serialising the reply of get_state is safe against any number of other  *)
(* get_state requests, although it takes no lock: it can meet an added     *)
(* key, throw and so restart the agent only if an apply replaced the       *)
(* document since the request began.                                       *)
QuietPolls ==
  \A r \in Readers : readers[r].step = "broken" => readers[r].swapped

(* The agent is kept from starting by its state file only if some Write    *)
(* was cut short, by an error or by the end of the process, and none ran   *)
(* to its end after it.                                                    *)
StartsAfterCleanWrite == phase = "failed" => unsettled

(* Once a Write has run to its end, or the file was read at the start, the *)
(* file, the document and the job in memory are of the same apply.         *)
SettledStateAgrees ==
  phase = "up" /\ ~unsettled =>
    file.kind \in {"missing", "whole"} /\ file.version = data /\ data = job

(* What State.cs aims at with "It aims to be threadsafe": a get_state      *)
(* reply carries every status key the request has set.                     *)
RepliesComplete ==
  \A r \in Readers : readers[r].step = "reply" => readers[r].seen = Keys

(* The strengthening that carries the safety properties.                   *)

(* Positions of a Write at which the file holds the spec being written.    *)
Saved == {"assigning", "refreshing", "rendering", "rendered", "reopening",
          "answering", "answered"}

(* ... at which data shows it.                                             *)
Shown == {"refreshing", "rendering", "rendered", "reopening", "rewriting",
          "answering", "answered"}

(* The versions of the copies: memory never leads the disk.                *)
VersionInv ==
  /\ file.version <= writer.version
  /\ phase = "up" => data <= file.version /\ job <= data
  /\ reported <= file.version
  /\ file.kind = "missing" => file.version = 0

(* Where the Write is, and what its positions say of the copies.           *)
WriterInv ==
  /\ phase # "up" => writer.step = "idle"
  /\ writer.step \in Saved => file.version = writer.version /\ file.kind = "whole"
  /\ writer.step \in Shown => data = writer.version /\ file.version = data
  /\ writer.step \in Shown \ {"refreshing"} => job = data /\ job \notin Unreadable
  /\ writer.step \in {"writing", "rewriting"} => file.kind \in {"empty", "torn"}
  /\ writer.step \notin {"idle", "answering", "answered"} => unsettled

(* A settled file is whole, readable and agrees with memory.               *)
SettledInv ==
  ~unsettled => Startable /\ (phase = "up" => file.version = data /\ data = job)

(* A request has set its keys on data, unless data was replaced.           *)
ReaderInv ==
  \A r \in Readers :
    /\ phase # "up" => readers[r].step = "idle"
    /\ readers[r].step \in {"hashed", "serialising", "reply", "broken"} =>
         readers[r].doc <= data
    /\ ~readers[r].swapped =>
         /\ readers[r].step = "setting" =>
              \A k \in Keys : k < readers[r].next => k \in keys[data]
         /\ readers[r].step \in {"hashed", "serialising", "reply"} =>
              readers[r].doc = data /\ keys[data] = Keys
         /\ readers[r].step \in {"serialising", "reply"} =>
              readers[r].seen = Keys

(* What the heartbeat has read is in memory.                               *)
BeatInv ==
  /\ phase # "up" => beat.step = "idle"
  /\ beat.step \in {"index", "send"} => beat.job <= data
  /\ beat.step = "send" => beat.job <= beat.index /\ beat.index <= data

StateInv ==
  /\ TypeOK /\ VersionInv /\ WriterInv /\ SettledInv /\ ReaderInv /\ BeatInv
  /\ NeverForgets /\ QuietPolls /\ StartsAfterCleanWrite

=============================================================================
