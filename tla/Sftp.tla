-------------------------------- MODULE Sftp --------------------------------
(***************************************************************************)
(* The file transfer of a session (KSftp.hxx, KSession::SftpLoop): a       *)
(* buffer of requests that a client may send ahead of their answers, a     *)
(* table of handles, whose names tell a slot and a path, and a current     *)
(* directory that the requests move about.                                 *)
(***************************************************************************)
EXTENDS Integers, Sequences, SequencesExt, FiniteSetsExt

CONSTANTS
  SftpMenus,        \* bound: what a client may ask, and whether calls of Windows fail
  SftpRequests,     \* bound: requests of the client
  SftpWindow,       \* bound: requests without an answer
  MAX_OPEN_HANDLES, \* one more than there are slots
  ReadSize          \* the blocks of data a READ asks for

\* The handle is given to a request when it is sent.
ASSUME SftpAssumption ==
  /\ SftpMenus \subseteq
       [requests : SUBSET [type : STRING, path : STRING, to : STRING, off : Nat, data : STRING,
                           id : {0}, handle : {<<0, "">>}],
        faulty : BOOLEAN]
  /\ SftpWindow \in Nat /\ ReadSize \in Nat /\ MAX_OPEN_HANDLES \in Nat

VARIABLES
  sftp,     \* the session: its place in the loop, buffer, answers, handles, directory
  disk,     \* disk[p]: the kind of what is there, its data
  sftpUser, \* the client: its menu, what it sent and was told, the answers whose handles it holds
  wire,     \* requests on their way
  written   \* history: what the writes to a file amount to, and were they in sequence

sftpVars == <<sftp, disk, sftpUser, wire, written>>

Slots == 1..(MAX_OPEN_HANDLES - 1)
NoHandle == <<0, "">>
NoFile == [kind |-> "none", data |-> <<>>]
File(data) == [kind |-> "file", data |-> data]
Dir == [kind |-> "dir", data |-> <<>>]

\* "/" is the list of drives; there is one, "/c".
Nodes == {"/c", "/c/d", "/c/d/d", "/c/f", "/c/g"}
Parent(p) == IF p = "/c/d/d" THEN "/c/d" ELSE "/c"

SftpInit ==
  /\ sftp = [pc |-> "receive", buff |-> <<>>, half |-> FALSE, out |-> <<>>, cwd |-> "/c",
             leaked |-> {}, handles |-> [i \in Slots |-> [file |-> "", state |-> "closed"]]]
  /\ disk = [p \in Nodes |-> CASE p \in {"/c", "/c/d"} -> Dir
                                [] p = "/c/f" -> File(<<"x", "y", "z">>)
                                [] OTHER -> NoFile]
  /\ \E menu \in SftpMenus : sftpUser = [menu |-> menu, sent |-> 0, told |-> 0, held |-> {}]
  /\ wire = <<>>
  /\ written = [p \in Nodes |-> [data |-> disk[p].data, inOrder |-> TRUE]]

\* normalize_path, and what Windows makes of a path without a drive; a path
\* that is no node cannot be there.
Abs(p) == CASE p = "." -> sftp.cwd
            [] p = "d" -> IF sftp.cwd = "/c" THEN "/c/d" ELSE IF sftp.cwd = "/c/d" THEN "/c/d/d" ELSE p
            [] OTHER   -> p
There(p) == IF Abs(p) \in Nodes THEN disk[Abs(p)] ELSE NoFile
CanCreate(p) == Abs(p) \in Nodes /\ disk[Parent(Abs(p))].kind = "dir"
Inside(p) == {q \in Nodes \ {p} : Parent(q) = p /\ disk[q].kind # "none"}

-----------------------------------------------------------------------------
(* Handles *)

\* OpenSftpHandle: the first closed slot; or a handle without a name.
OpenSftpHandle(file) ==
  LET free == {i \in Slots : sftp.handles[i].state = "closed"}
  IN  IF free = {} THEN NoHandle ELSE <<Min(free), file>>
Opened(h) ==
  IF h[1] \notin Slots THEN sftp
  ELSE [sftp EXCEPT !.handles[h[1]] = [file |-> h[2], state |-> "opened"]]

\* Mutant: the path in the name of the handle is not compared.
ParseSftpHandleByNumber(h) == IF h[1] \in Slots THEN h[1] ELSE 0

ParseSftpHandle(h) == IF h[1] \in Slots /\ sftp.handles[h[1]].file = h[2] THEN h[1] ELSE 0

GetSftpHandleState(h) ==
  IF ParseSftpHandle(h) = 0 THEN "closed" ELSE sftp.handles[ParseSftpHandle(h)].state
GetSftpHandleFile(h) == sftp.handles[ParseSftpHandle(h)].file

SetSftpHandleState(h, state) ==
  IF ParseSftpHandle(h) = 0 THEN sftp
  ELSE [sftp EXCEPT !.handles[ParseSftpHandle(h)].state = state]

-----------------------------------------------------------------------------
(* What a request comes to: the session, the disk and the answer, if any *)

\* The fields of the messages of the server.
Answer(r, type, what) == [id |-> r.id, type |-> type, what |-> what]
Status(r, code) == Answer(r, "STATUS", code)

Outcome(session, files, answer) == [sftp |-> session, disk |-> files, answer |-> <<answer>>]
Says(r, code) == Outcome(sftp, disk, Status(r, code))

\* A call as the user: there may be no impersonation, or no way back from it,
\* when all is done and reported as a failure.
Impersonated(r, done) ==
  {done} \cup IF sftpUser.menu.faulty
              THEN {Says(r, "FAILURE"), [done EXCEPT !.answer = <<Status(r, "FAILURE")>>]} ELSE {}
IfPossible(r, possible, done) == Impersonated(r, IF possible THEN done ELSE Says(r, "FAILURE"))
Writes(p, node) == [disk EXCEPT ![Abs(p)] = node]
OKWith(r, files) == Outcome(sftp, files, Status(r, "OK"))

\* GetSftpHandleFile makes a string of a null pointer when the slot has another
\* file: the process ends.
Crash == {[sftp |-> [sftp EXCEPT !.pc = "ended"], disk |-> disk, answer |-> <<>>]}

\* cd: "/" and "." leave the current directory alone.
Cd(p) == p = "/" \/ There(p).kind = "dir"
CdTo(p) == IF p = "/" THEN sftp ELSE [sftp EXCEPT !.cwd = Abs(p)]

RealPath(r) ==
  IfPossible(r, Cd(r.path),
             Outcome(CdTo(r.path), disk,
                     Answer(r, "NAME", {IF r.path = "/" THEN "/" ELSE CdTo(r.path).cwd})))

OpenDir(r) ==
  LET h == OpenSftpHandle(r.path)
  IN  {IF o.answer[1].type = "HANDLE"
       THEN [o EXCEPT !.sftp = [Opened(h) EXCEPT !.cwd = o.sftp.cwd]] ELSE o :
         o \in IfPossible(r, Cd(r.path), Outcome(CdTo(r.path), disk, Answer(r, "HANDLE", h)))}

\* The directory is entered again by the path of the handle; the second time
\* there is nothing more.
ReadDir(r) ==
  IF ParseSftpHandle(r.handle) = 0 THEN Crash
  ELSE LET p == GetSftpHandleFile(r.handle)
           there == CdTo(p).cwd
           listed == [SetSftpHandleState(r.handle, "eof") EXCEPT !.cwd = there]
           names == IF p = "/" THEN {"/c"} ELSE Inside(there)
       IN  IF GetSftpHandleState(r.handle) # "opened"
           THEN IfPossible(r, Cd(p), Outcome(CdTo(p), disk, Status(r, "EOF")))
           ELSE {IF o.answer[1].type = "NAME" THEN [o EXCEPT !.sftp = listed] ELSE o :
                   o \in IfPossible(r, Cd(p), Outcome(CdTo(p), disk, Answer(r, "NAME", names)))}

MkDir(r) ==
  IfPossible(r, r.path # "." /\ There(r.path).kind = "none" /\ CanCreate(r.path),
             OKWith(r, Writes(r.path, Dir)))

\* Windows keeps a directory somebody is in.
Removable(p, cwd) == p \in Nodes \ {"/c"} /\ disk[p].kind = "dir" /\ Inside(p) = {} /\ cwd # p

\* First the session leaves its directory, which a relative path then is not
\* relative to any more.
RmDir(r) ==
  IF r.path = "." THEN {Says(r, "FAILURE")}
  ELSE LET up == [sftp EXCEPT !.cwd = Parent(@)]
           p  == IF r.path = "d" THEN IF up.cwd = "/c" THEN "/c/d" ELSE "/c/d/d" ELSE r.path
       IN  Impersonated(r, IF Removable(p, up.cwd)
                           THEN Outcome(up, [disk EXCEPT ![p] = NoFile], Status(r, "OK"))
                           ELSE Outcome(up, disk, Status(r, "FAILURE")))

\* The handle is opened whether or not the file can be, and the flags are
\* ignored; a file that seems not to be there is made, and emptied if it is.
Open(r) ==
  LET h == OpenSftpHandle(r.path)
      granted(files) == Outcome(Opened(h), files, Answer(r, "HANDLE", h))
      leaked(files)  == Outcome(IF h = NoHandle THEN sftp ELSE [Opened(h) EXCEPT !.leaked = @ \cup {h}],
                                files, Status(r, "FAILURE"))
      makes == There(r.path).kind # "dir" /\ CanCreate(r.path)
      made  == Writes(r.path, File(<<>>))
  IN  (IF There(r.path).kind # "none" THEN {granted(disk)}
       ELSE IF makes THEN {granted(made)} ELSE {leaked(disk)})
      \cup IF ~sftpUser.menu.faulty THEN {}
           ELSE {leaked(disk)} \cup IF makes THEN {granted(made), leaked(made)} ELSE {}

\* A short read closes the handle.
Read(r) ==
  IF GetSftpHandleState(r.handle) # "opened" THEN {Says(r, "EOF")}
  ELSE LET p == GetSftpHandleFile(r.handle)
           data == SubSeq(There(p).data, r.off + 1, Min({r.off + ReadSize, Len(There(p).data)}))
           done == Outcome(IF Len(data) = ReadSize THEN sftp ELSE SetSftpHandleState(r.handle, "closed"),
                           disk, Answer(r, "DATA", data))
       IN  {IF There(p).kind = "file" THEN done ELSE Says(r, "FAILURE")}
             \cup IF sftpUser.menu.faulty THEN {Says(r, "FAILURE")} ELSE {}

\* At offset 0 the file is emptied, at any other the data goes to its end.
Write(r) ==
  IF ParseSftpHandle(r.handle) = 0 THEN Crash
  ELSE LET p == GetSftpHandleFile(r.handle)
           data == IF r.off = 0 THEN <<r.data>> ELSE Append(There(p).data, r.data)
       IN  IfPossible(r, There(p).kind # "dir" /\ CanCreate(p), OKWith(r, Writes(p, File(data))))

Close(r) == {Outcome(SetSftpHandleState(r.handle, "closed"), disk, Status(r, "OK"))}

Delete(r) == IfPossible(r, There(r.path).kind = "file", OKWith(r, Writes(r.path, NoFile)))

Rename(r) ==
  IfPossible(r, There(r.path).kind = "file" /\ There(r.to).kind = "none" /\ CanCreate(r.to),
             OKWith(r, [disk EXCEPT ![Abs(r.path)] = NoFile, ![Abs(r.to)] = There(r.path)]))

Stat(r) ==
  IF r.type = "FSTAT" /\ ParseSftpHandle(r.handle) = 0 THEN Crash
  ELSE LET p == IF r.type = "FSTAT" THEN GetSftpHandleFile(r.handle) ELSE r.path
       IN  {IF There(p).kind = "none" THEN Says(r, "NO_SUCH_FILE")
            ELSE Outcome(sftp, disk, Answer(r, "ATTRS", There(p).kind))}
             \cup IF sftpUser.menu.faulty THEN {Says(r, "NO_SUCH_FILE"), Says(r, "FAILURE")} ELSE {}

FSetStat(r) == {Says(r, "OK")}
Unsupported(r) == {Says(r, "OP_UNSUPPORTED")}
InitVersion(r) == {Outcome(sftp, disk, Answer(r, "VERSION", "3"))}

ProcessPacket(r) ==
  CASE r.type = "REALPATH" -> RealPath(r) [] r.type = "OPENDIR" -> OpenDir(r)
    [] r.type = "READDIR"  -> ReadDir(r)  [] r.type = "MKDIR"   -> MkDir(r)
    [] r.type = "RMDIR"    -> RmDir(r)    [] r.type = "OPEN"    -> Open(r)
    [] r.type = "READ"     -> Read(r)     [] r.type = "WRITE"   -> Write(r)
    [] r.type = "CLOSE"    -> Close(r)    [] r.type = "REMOVE"  -> Delete(r)
    [] r.type = "RENAME"   -> Rename(r)   [] r.type \in {"STAT", "FSTAT"} -> Stat(r)
    [] r.type = "FSETSTAT" -> FSetStat(r) [] r.type = "INIT"    -> InitVersion(r)
    [] OTHER               -> Unsupported(r)

-----------------------------------------------------------------------------
(* SftpLoop *)

\* Mutant: the rest of the buffer goes with the answers.
AfterDropsRest(o) ==
  [o.sftp EXCEPT !.out = @ \o o.answer, !.buff = <<>>, !.half = FALSE, !.pc = "send"]

\* Process stops early when the answers are long: data or names, by themselves.
After(o) ==
  [o.sftp EXCEPT !.out = @ \o o.answer, !.buff = Tail(@),
     !.pc = IF @ = "ended" THEN @
            ELSE IF o.answer[1].type \in {"DATA", "NAME"} THEN "send" ELSE "process"]

\* History: in sequence is a write at the end of what was written.
Written(r, o) ==
  LET p == Abs(r.handle[2])
  IN  IF r.type # "WRITE" \/ o.disk = disk
      THEN [q \in Nodes |-> IF o.disk[q] = disk[q] THEN written[q]
                            ELSE [data |-> o.disk[q].data, inOrder |-> TRUE]]
      ELSE [written EXCEPT ![p] =
              [data    |-> IF r.off = 0 THEN <<r.data>> ELSE Append(@.data, r.data),
               inOrder |-> r.off = 0 \/ (@.inOrder /\ r.off = Len(@.data))]]

\* KSftp::Process, a packet at a time.
ProcessNext ==
  /\ sftp.pc = "process" /\ Len(sftp.buff) > IF sftp.half THEN 1 ELSE 0
  /\ Head(sftp.buff).type # "malformed"
  /\ LET r == Head(sftp.buff)
     IN  \E o \in ProcessPacket(r) :
           /\ sftp' = After(o) /\ disk' = o.disk
           /\ written' = Written(r, o)
  /\ UNCHANGED <<sftpUser, wire>>

\* A packet too short for its fields: the answers before it are lost, too.
ProcessFails ==
  /\ sftp.pc = "process" /\ Len(sftp.buff) > IF sftp.half THEN 1 ELSE 0
  /\ Head(sftp.buff).type = "malformed"
  /\ sftp' = [sftp EXCEPT !.pc = "ended", !.out = <<>>]
  /\ UNCHANGED <<disk, sftpUser, wire, written>>

ProcessEnds ==
  /\ sftp.pc = "process" /\ Len(sftp.buff) = IF sftp.half THEN 1 ELSE 0
  /\ sftp' = [sftp EXCEPT !.pc = "send"]
  /\ UNCHANGED <<disk, sftpUser, wire, written>>

Granted(out) == {out[i] : i \in {i \in DOMAIN out : out[i].type = "HANDLE" /\ out[i].what # NoHandle}}
SendAnswers ==
  /\ sftp.pc = "send"
  /\ sftp' = [sftp EXCEPT !.pc = "receive", !.out = <<>>]
  /\ sftpUser' = [sftpUser EXCEPT !.told = @ + Len(sftp.out), !.held = @ \cup Granted(sftp.out)]
  /\ UNCHANGED <<disk, wire, written>>

\* Mutant: the loop goes on when something came.
ReceiveOnlyNew ==
  /\ sftp.pc = "receive" /\ wire # <<>>
  /\ sftp' = [sftp EXCEPT !.pc = "process", !.buff = @ \o wire, !.half = FALSE]
  /\ wire' = <<>>
  /\ UNCHANGED <<disk, sftpUser, written>>

\* What came, whole packets and half of one; or nothing, and the loop goes on
\* with what is left.
Receive ==
  /\ sftp.pc = "receive" /\ (wire # <<>> \/ sftp.buff # <<>>)
  /\ \E k \in (IF wire = <<>> \/ sftp.half THEN 0 ELSE 1)..Len(wire), half \in BOOLEAN :
       /\ half => k > 0
       /\ sftp' = [sftp EXCEPT !.pc = "process", !.buff = @ \o SubSeq(wire, 1, k), !.half = half]
       /\ wire' = SubSeq(wire, k + 1, Len(wire))
  /\ UNCHANGED <<disk, sftpUser, written>>

\* The client leaves, or there is too much in the buffer.
SftpEnds ==
  /\ sftpUser.menu.faulty /\ sftp.pc \in {"send", "receive"}
  /\ sftp' = [sftp EXCEPT !.pc = "ended", !.out = <<>>]
  /\ UNCHANGED <<disk, sftpUser, wire, written>>

\* The client sends one of its requests, for a handle that it holds, and holds
\* it no more when it closes it.
Handled == {"READDIR", "READ", "WRITE", "CLOSE", "FSTAT"}
ClientRequests ==
  /\ sftp.pc # "ended"
  /\ sftpUser.sent < SftpRequests /\ sftpUser.sent - sftpUser.told < SftpWindow
  /\ \E r \in sftpUser.menu.requests :
     \E a \in IF r.type \in Handled THEN sftpUser.held ELSE {[what |-> NoHandle]} :
       /\ wire' = Append(wire, [r EXCEPT !.id = sftpUser.sent + 1, !.handle = a.what])
       /\ sftpUser' = [sftpUser EXCEPT !.sent = @ + 1,
                         !.held = IF r.type = "CLOSE" THEN @ \ {a} ELSE @]
  /\ UNCHANGED <<sftp, disk, written>>

SftpLoop == ProcessNext \/ ProcessFails \/ ProcessEnds \/ SendAnswers \/ Receive
SftpNext == SftpLoop \/ SftpEnds \/ ClientRequests
SftpFairness == WF_sftpVars(SftpLoop)
SftpSpec == SftpInit /\ [][SftpNext]_sftpVars /\ SftpFairness

-----------------------------------------------------------------------------
(* Properties *)

SftpAsks == UNION {menu.requests : menu \in SftpMenus}
SftpPaths == Nodes \cup {"", "/"} \cup {ask.path : ask \in SftpAsks}
SftpBlocks == {"x", "y", "z"} \cup {ask.data : ask \in SftpAsks}
SftpHandles == (Slots \X SftpPaths) \cup {NoHandle}
SftpRequest == [type : {ask.type : ask \in SftpAsks}, path : {ask.path : ask \in SftpAsks},
                to : {ask.to : ask \in SftpAsks}, off : Nat, data : SftpBlocks, id : Nat, handle : SftpHandles]

Codes == {"OK", "FAILURE", "EOF", "NO_SUCH_FILE", "OP_UNSUPPORTED"}
SftpAnswer == [id : Nat, type : {"STATUS", "ATTRS", "VERSION"}, what : Codes \cup {"file", "dir", "3"}]
                \cup [id : Nat, type : {"HANDLE"}, what : SftpHandles]
                \cup [id : Nat, type : {"DATA"}, what : Seq(SftpBlocks)]
                \cup [id : Nat, type : {"NAME"}, what : SUBSET SftpPaths]
HandleAnswer == [id : Nat, type : {"HANDLE"}, what : Slots \X SftpPaths]

SlotType == [file : SftpPaths, state : {"closed", "opened", "eof"}]
SessionType == [pc : {"process", "send", "receive", "ended"}, buff : Seq(SftpRequest), half : BOOLEAN,
                out : Seq(SftpAnswer), cwd : Nodes, leaked : SUBSET SftpHandles, handles : [Slots -> SlotType]]
NodeType == [kind : {"none", "file", "dir"}, data : Seq(SftpBlocks)]
DiskType == [Nodes -> NodeType]
UserType == [menu : SftpMenus, sent : Nat, told : Nat, held : SUBSET HandleAnswer]
WrittenType == [Nodes -> [data : Seq(SftpBlocks), inOrder : BOOLEAN]]

\* Every handle a client holds names a slot (MAX_OPEN_HANDLES), and the session
\* is always in a directory that is there, whatever it removed.
SftpTypeOK ==
  /\ sftp.pc \in {"process", "send", "receive", "ended"}
  /\ \A i \in Slots : sftp.handles[i].state \in {"closed", "opened", "eof"}
  /\ \A a \in sftpUser.held : a.what[1] \in Slots
  /\ disk[sftp.cwd].kind = "dir"

\* Requests are answered in the order they came, each once, though Process stops
\* in the middle of its buffer and packets come in parts.
AnsweredInOrder ==
  sftp.pc # "ended" =>
    LET on == sftp.out \o sftp.buff \o wire
    IN  [i \in DOMAIN on |-> on[i].id] = [i \in 1..(sftpUser.sent - sftpUser.told) |-> sftpUser.told + i]

\* When all is answered, a slot that is not closed has the file of a handle that
\* the client holds, or of one that was opened though its file could not be.
SlotsAccounted ==
  sftp.pc # "ended" /\ sftpUser.sent = sftpUser.told =>
    \A i \in Slots :
      sftp.handles[i].state # "closed" =>
        <<i, sftp.handles[i].file>> \in {a.what : a \in sftpUser.held} \cup sftp.leaked

\* Whoever writes a file from its beginning to its end has written it, though a
\* write knows but two offsets, 0 and the rest.
WritesLand == \A p \in Nodes : written[p].inOrder => disk[p].data = written[p].data

Processed(r) == sftp.pc = "process" /\ sftp.buff # <<>> /\ r = Head(sftp.buff) /\ Len(sftp'.buff) < Len(sftp.buff)
Told == Last(sftp'.out)

\* A request acts on the file its handle was opened with, though the slot may
\* have been closed by a short read and given to another file since.
ActsOnItsFile(r) ==
  r.type \in {"READ", "WRITE"} =>
    LET p == Abs(r.handle[2])
    IN  /\ \A q \in Nodes \ {p} : disk'[q] = disk[q]
        /\ sftp'.pc = "send" /\ Told.type = "DATA" =>
             Told.what = SubSeq(There(p).data, r.off + 1, r.off + Len(Told.what))
ActsOnHandle == [][\A r \in Range(sftp.buff) : Processed(r) => ActsOnItsFile(r)]_sftpVars

\* A directory opened by its whole path is the one that is listed, wherever
\* requests in between moved the session.
ListsThat(r) ==
  r.type = "READDIR" /\ r.handle[2] = "/c/d" /\ sftp'.pc = "send" => Told.what = Inside("/c/d")
ListsWhatWasOpened == [][\A r \in Range(sftp.buff) : Processed(r) => ListsThat(r)]_sftpVars

\* An empty directory can be removed by its whole path even if the session has
\* just listed it.
RemovesThat(r) ==
  r.type = "RMDIR" /\ r.path = "/c/d" /\ ~sftpUser.menu.faulty /\ disk["/c/d"] = Dir /\ Inside("/c/d") = {}
    => Told.what = "OK"
RemovesWhatItListed == [][\A r \in Range(sftp.buff) : Processed(r) => RemovesThat(r)]_sftpVars

\* Every request gets its answer or the session ends, though nothing more comes
\* from the client that would make the loop go on.
SftpAnswers == []<>(sftpUser.told = sftpUser.sent \/ sftp.pc = "ended")

\* Requests sent ahead, handles closed by short reads and files opened twice leave
\* the answers in order, the slots accounted for and the written files whole.
SftpInv == SftpTypeOK /\ AnsweredInOrder /\ SlotsAccounted /\ WritesLand

\* A name or handle means the same file whenever it is used, though slots are
\* given away and every request moves the current directory.
ActsOnNames == ActsOnHandle /\ ListsWhatWasOpened /\ RemovesWhatItListed

-----------------------------------------------------------------------------
(* What these follow from *)

SftpTypes ==
  /\ sftp \in SessionType /\ disk \in DiskType /\ sftpUser \in UserType
  /\ wire \in Seq(SftpRequest) /\ written \in WrittenType

\* What is on its way, to the client, in the buffer and from the client, has the
\* numbers that follow the last one told.
Follows(seq, n) == \A i \in 1..Len(seq) : seq[i].id = n + i
Numbered ==
  sftp.pc # "ended" =>
    /\ sftpUser.sent = sftpUser.told + Len(sftp.out) + Len(sftp.buff) + Len(wire)
    /\ Follows(sftp.out, sftpUser.told)
    /\ Follows(sftp.buff, sftpUser.told + Len(sftp.out))
    /\ Follows(wire, sftpUser.told + Len(sftp.out) + Len(sftp.buff))

\* Who knows a handle: the client, an answer on its way, a CLOSE on its way, or nobody.
Known(h) ==
  \/ h \in sftp.leaked
  \/ \E a \in sftpUser.held : a.what = h
  \/ \E i \in 1..Len(sftp.out) : sftp.out[i].type = "HANDLE" /\ sftp.out[i].what = h
  \/ \E i \in 1..Len(sftp.buff) : sftp.buff[i].type = "CLOSE" /\ sftp.buff[i].handle = h
  \/ \E i \in 1..Len(wire) : wire[i].type = "CLOSE" /\ wire[i].handle = h
OpenIsKnown ==
  sftp.pc # "ended" =>
    \A i \in Slots : sftp.handles[i].state # "closed" => Known(<<i, sftp.handles[i].file>>)

\* The disk is a tree, and the session is in one of its directories.
DiskIsTree ==
  /\ \A p \in Nodes : disk[p].kind # "none" => disk[Parent(p)].kind = "dir"
  /\ disk[sftp.cwd].kind = "dir"

SftpIndInv == SftpTypes /\ Numbered /\ OpenIsKnown /\ DiskIsTree /\ WritesLand
=============================================================================
