# Verification of the .NET BOSH agent and of its SSH server

This directory holds TLA+ models of the BOSH agent for Windows
(`src/src/Uhuru.BOSH.Agent`, C#) and of the telnet and SSH server the repository
builds beside it (`src/src/SSHServer`, C++), the TLC configurations that check
them on small instances, and TLAPS proofs of what matters most for every size.

Paths below are relative to `src/src/Uhuru.BOSH.Agent/` or `src/src/SSHServer/`.

## 1. Inventory

The agent is a Windows service. It connects to a NATS bus, serves the requests
of the BOSH director (apply a spec, start and stop services, mount disks,
compile packages, ...), sends heartbeats, and ends its own process when
something unexpected happens, so that the service host starts it afresh.
Threads: the NATS thread (HandleMessage), the .NET thread pool (one work item
per request, the NATS connection loop, kill work items), the heartbeat timer,
the monit timer, and the execution thread of `AgentRunner`. They share
`Handler.Lock` and the two task collections, `Config.State`, the singleton `Monit`
and its `locker`, `Config.Nats`, and files under the base directory.

The SSH server is another Windows service, which the agent starts for an operator
who is to log in and stops afterwards. Its daemon accepts connections and hands
each to a process of its own; the process authenticates the user, opens a shell,
sftp or forwarded connections, and may wait without a client for the user to come
back. Its processes share files (bans, states of sessions), pipes and Windows.

| Component | State it keeps | Operations | What is hard |
|---|---|---|---|
| Handler (`Handler.cs`) | `LongRunningAgentTask`, `Results`, `Lock`, `RestartingAgent` | HandleMessage, ProcessInThread, ProcessLongRunning, HandleGetTask, KillMainThreadIn, shutdown | pool threads, a mutex, collections read without it, kill and restart at any step |
| Agent state (`State.cs`, `Message/State.cs`) | `data`, `job`, `networks`, `state.yml` | Read, Write, SetValue, ToHash, get_state | three copies replaced one after the other, live document serialised without a lock, file truncated in place |
| Connection and heartbeat (`Handler.StartHandler`, `Heartbeat*.cs`) | reactor, `NatsFailCount`, timer | StartHandler, Retry, NatsOnConnect, Enable, Beat | retry racing FailFast, failed subscription |
| Apply (`Message/Apply.cs`, `Message/Prepare.cs`, `ApplyPlan/`), compile package | directories, links and bound templates of jobs and packages | Plan, Install, Configure, Write, clean up | failure or end of the process between any two steps, the director tries again |
| Monit (`Monit.cs`, `Message/Start.cs`, `Message/Stop.cs`) | `specifiedJobs`, `serviceControllers` | Run, StartServices, StopServices, GetServiceGroupState | stale statuses, reads without the lock, start during an apply |
| Bootstrap (`Bootstrap.cs`, `Infrastructures/`, `AgentRunner.cs`) | `settings.json`, host settings | a sequence of host changes | a crash half way is taken for a finished bootstrap |
| Disks (`Message/*Disk.cs`) | mount points, read-only marks, contents | mount, migrate, unmount, list | order of requests, silent skips |
| Ssh (`Message/Ssh.cs`, `SshdMonitor.cs`) | accounts, salts, the service and its start time | setup, cleanup | any number of requests at a time |
| Drain, fetch logs, alerts, Ntp, vitals, blobstore client | little or none | run a script, pack files, format and send | - |
| Daemon (`daemon/KDaemon.hxx`, `KTermSessions.hxx`, `shared/KIPBan.hxx`) | list of sessions, ban files | accept, refuse, hand over, count | one thread accepts, files without a lock, children that die |
| Service and setup (`daemon/KSetup.hxx`, `KService.hxx`) | `kts.ini`, the installed service | menu and editor, install, start, stop, uninstall | cursor of a scrolled menu, a stop that is not taken |
| Auto logon (`session/KAutoLogon.hxx`, `shared/slre`) | rules | compile, match | backtracking |
| Transport (`shared/cl-sources/ssh2_svr.c`, `ssh2_rd.c`, `ssh2_cry.c`) | algorithms, hashes, keys, the state of a re-key | handshake, read, re-key | guessed packets, keys that change while packets are read, a re-key spread over packets of the open session |
| Authentication (`ssh2_auths.c`, `session/KSession.hxx`, `KPublickeyLogon.hxx`) | credentials of a request, attempts | read a request, ask Windows, answer, time out | globals that outlive a request, the health monitor beside the loop |
| Channels and forwarding (`ssh2_msg.c`, `ssh2_msgs.c`, `ssh2_chn.c`, `KPortforward.hxx`) | channel list, windows, sockets | open, data, adjust, request, EOF, close | packets of both directions cross; numbers come back |
| Session processes (`KSession.hxx`, `KSessionState.hxx`, `KPipe.hxx`) | state in a file name, pipe, job of processes | log in, become a proxy, relay, wait, shut down | four threads a process, several processes of one user |
| Telnet input and console size (`KTelnet.hxx`, `KKey.hxx`, `KConsole.hxx`) | bytes not yet understood, sizes | commands, keys, resize | reads cut the stream anywhere |
| sftp (`session/KSftp.hxx`) | buffer, handles, current directory | every request | requests sent ahead, handles closed behind the client's back |
| Screen export, rest of cryptlib | - | - | - |

`PROJECT.json` lists the same components with their status, and under `hazards`
every place where this code is hard to test, with the properties that watch it.

## 2. Plan

Done:

1. the agent's handler, state, connection and Monit: `AgentHandler`
   (implements `TaskService`), `StateFile`, `NatsStartup`, `Monit`;
2. what its requests do to a host: `ApplyPlan`, `HostSetup`, `AgentSsh`;
3. the SSH server: `KtsDaemon`, `KtsSetup`, `AutoLogon`, `SshNegotiate` and
   `SshPacket` with `SshTransport` and `SshRekey` on them, `SshAuth`, `SshChannel`,
   `KtsSession`, `KtsTelnet`, `Sftp`;
4. proofs: `AgentHandlerProofs`, `AgentThreadsProofs` (`NatsStartup`, `Monit`),
   `AgentRequestsProofs` (`StateFile`, `ApplyPlan`, `HostSetup`, `AgentSsh`),
   `KtsDaemonProofs` (also of `KtsSetup`), `SshTransportProofs`, `SshLoginProofs`
   (`SshAuth`, `Sftp`), `SshChannelProofs`, `KtsSessionProofs`.

Next, if anything: `RekeyInv` as a theorem, for it is only model-checked; `Drain`
and `FetchLogs` as sequential algorithms with failing steps; `Alert` last.

## 3. The models

### TaskService and AgentHandler

`TaskService` is what the director relies on: a task is absent, running or
finished, at most one runs, a poll is answered with the status the task had at
some instant between question and answer, everything is forgotten when the
process ends.

`AgentHandler` follows `Handler.cs` step by step. A request is identified with
its delivery. `pc[r]` is where the delivery is: on the bus, in the queue of the
pool, at a position of `ProcessInThread`/`ProcessLongRunning`, or done or lost.
`nats` is what the NATS thread does; `lock`, `tasks`, `results`, `restarting`
are the fields of the handler; `killQueued` and `killAsleep` are the work items
of KillMainThreadIn; `announced`, `forgotten` and `answered` record what the
director was told, and `late` which requests started on a stale read of
`RestartingAgent`. Each action is one step between two accesses to shared state;
the names of actions follow the code (`CheckRestarting`, `AcquireLock`,
`RegisterTask`, ...).

Three facts of the code shape the model:

- No exception the messages raise derives from `AgentException`, so
  `Handler.Process` never returns null; every exception sets `RestartingAgent`.
- `RemoteException.ToHash` throws, so the replies "restarting agent", "already
  running" and "unknown message" are never sent.
- `Encrypt` always throws, so with `Credentials` other than null nothing is
  ever published, and with non-empty credentials every message is dropped.

`TS == INSTANCE TaskService WITH ...` maps the collections to statuses and the
position of the poll to what it has seen.

### StateFile

Documents are named by the apply that brought them. `data` and `job` are the
fields of `State`, `keys` the status keys `SetValue` has put on each live
document, `file` the file with how much of it is there. `writer` walks through
`State.Write` (create the file, write, assign `data`, refresh `job`, render,
create the file again, write) and the serialisation of the reply; each reader
walks through `GetState` of `Message/State.cs` and the serialisation; `beat` is
the heartbeat; `Crash` ends the process at any step and `Start` is
`Config.Setup`, which reads the file. `reported` and `unsettled` are history:
the latest document the director was told of, and whether a Write is unfinished.

The walk over a live collection may throw if a key was added since it began
(the enumerators of Newtonsoft.Json, a binary in `lib/`); the model lets it
throw or not. The mutex of the handler, modelled in `AgentHandler` (`LockInv`),
is what lets `StateFile` have a single writer.

### NatsStartup

How the agent gets onto the bus. `step[c]` is where the work item of the c-th
call of `StartHandler` is; `nats` is `Handler.Nats`, `configNats` is
`Config.Nats`, both named by the call whose reactor they hold; `conn` is what
the library knows of each connection, and `subscribed` who subscribed on which.
`Nap` is the loop that goes on after a failed start; `Enable` is
`HeartbeatProcessor.Enable`, which throws when `Config.Nats` is not open;
`Retry` and `FailFast` are the two statements of the catch block, one after the
other. The bus comes and goes (`BusGoes`, `BusReturns`, `Reconnect`).

The reactor is a library in binary form. The model takes it to raise `OnConnect`
once per reactor, not again after it has reconnected, and to let the exception
`Nats_OnError` throws end the process or to catch it: both are possible.

### Monit

`real` and `disabled` are the service control manager's: the state of each
service and whether its start type is disabled. `described` are the services
named by the monit files on disk, `specified` is `specifiedJobs`, `statuses` is
`serviceControllers`, `locker` the holder of the lock. `thread[t]` is what a
thread that takes the lock is doing, with the list of services it holds: the
timer (`Run`), `runner`, the execution thread of `AgentRunner` (`StartServices` at
the start of the agent), the start requests, and `worker`, the one long running
request there is at a time (`StopServices`, or `RunPrescripts` from an apply).
`reader[r]` is a heartbeat or a get_state in `GetServiceGroupState`.

What the code does and the model keeps:

- `Run` lists the services before it takes the lock, so it may write a status
  that is minutes old.
- `Dictionary.Add` makes an entry visible before its value is there (`blank`) and
  counts the version last; an enumerator compares the version at every step.
  So an enumeration that is not thrown out may see one entry that is being
  written, and only one.
- `StopServices` disables a service, waits while it is pending (or kills it after
  30 seconds), stops it, waits, kills it if it is back, and enables it again in
  the finally. A failure is logged (`failed`) and the next service is next.
- `First()` throws when the service is gone (`NoSuchService`): the lock is given
  back; on the execution thread the process ends, in a request the handler
  restarts the agent (`restarting`, then `Kill`).
- Nothing removes entries: `UnmonitorServices` is never called.

`outside` and `failed` are history of the current `StopServices`: the services
somebody else started (while they were not disabled) or removed, and those whose
failure was logged. `could` is the set of answers that were right at some time
since the report began.

### ApplyPlan

`apply`, `prepare` and `compile_package`, one at a time. What runs is a list of
steps (download, unpack, link, bind, pre-script, write the state, ...); `bits`
tells how much of its blob a directory holds, `links` where a link leads, `bound`
whose properties a job's templates were filled in with. Every step may fail,
which restarts the process, and the process may end between two; what is left
behind is what the next request finds.

### HostSetup

The choice between a first run and any other, the settings (CD-ROM and
`settings.json`), Bootstrap, and mount_disk, migrate_disk, unmount_disk. What
runs is again a list of steps, `running.todo`; `mount`, `readOnly` and `holds` are
what Windows knows of the disks, `migrateCut` that a migration ended half way.
The network, identity, passwords and time of Bootstrap are one step.

### AgentSsh

Each setup and cleanup is a thread of its own: `step[r]` is where it is,
`account`, `admins` and `salt` name the setup whose password Windows and the salt
file hold, `sshdLock` and `startTime` are `SshdMonitor`'s, `since[r]` (history) which
requests of the same user ran beside or after `r`. The timer of `SshdMonitor` is
never enabled in the code.

### KtsDaemon

The accept loop as it goes from one connection to the next: count in the ban
files, refuse or start a process, hand over the socket, list the session. `conn`,
`proc` and `pids` are what the clients, Windows and the list know; the ban
count of an address is a set of files, for two sessions may write two names.

### KtsSetup, AutoLogon

`KtsSetup`: menu position, first row shown, editor and the service, with the
states the service control manager has for it. `ktsIni` has the text of an option
as it is in the file; `GetKey` takes off the blanks and the quotes around it and
cuts it at the buffer, as `GetPrivateProfileString` does, and makes line feeds of
what the editor escaped. `AutoLogon`: rules are trees;
`RuleText` writes them, the compiler of slre makes code, the matcher runs it,
and `Means` says which words the tree stands for.

### SshNegotiate, SshPacket, SshTransport, SshRekey

`SshNegotiate` chooses algorithms from two lists. `SshPacket` is what the two
modules on it share: the numbers of packets, how one is read, and how a client that
keeps to the protocol chooses. The messages of two exchanges share the numbers 30
and 31, as in `ssh.h`. A key is the record of what it was derived from, so a
packet is readable exactly with the key it was written with.

`SshTransport` is the handshake of one session and the open session behind it as
two parties and two queues of packets. `SshRekey` begins with an open session: the
client asks for an exchange, with the same or other algorithms, a guess, a group
request; the server takes one packet at a time (`ke_DH_ROUTER`), keeps what it has of
the exchange in `server.ke` (`ke_handshakeInfo`), and writes shell output whenever it
likes. Facts of the code that shape it:

- The table of host keys is cleared and filled again for every exchange
  (`ssh2_svr.c:920`, `ssh2.c:1266`); its length counts one row more than it has, so
  that what lies behind it is looked at for a name too (`last`).
- `processClientKexinit` writes the cipher it chooses into a local record: the
  session keeps its first one, whatever the client names.
- `KEXDH_INIT` has the number of the older group request and is taken for one, so
  a re-key with group1 ends in an error.
- After a wrong guess `ke_SSH2_MSG_KEXINIT` returns before the server's own KEXINIT
  with the exchange half made: the next packet of the client meets that.
- A failed exchange leaves `ke_handshakeInfo`, but ends the session.

The client takes data at any time, also between its KEXINIT and the end of the
exchange, where RFC 4253 (7.1) does not let the server send any and this one does.

### SshAuth

The loop of `LoginSSH` around `processServerAuth`, its thread beside the health
monitor and the time limit. `checked` (history) is the request the library last
left to the caller. `DebugFlag` is `debug_flag`, a start for tests, under which a logon Windows
refused counts as good.
An empty password reaches the caller as a text of no characters (`EmptyPassword`),
which is also what its strings hold before the first request; an account may have
none, and one in the instance has none. After the third no-op in a row the caller
takes over the user's name, though there is nothing to judge (`LoginReads`): then
the process ends, or goes round once more if it was ending already, so
`CredentialsOfOneRequest` leaves that case out and `Judged` names it.

### SshChannel

The channel list, the peer's view of it, and the packets of both directions. A C
function is an operator from the session record `s` to `[s, st]`, the session it
leaves and the status it returns, so that the order of calls and early returns
is that of the code.

### KtsSession and KtsTelnet

`KtsSession`: for each session process the place of its main thread, login
thread, monitor and shut-down thread, the state its file name tells, its pipe and
job, and who is whose proxy. The choice of a session to come back to is a step for
the list of the files (`rest`), one for each file that is looked at (`list` is what
is offered) and one for each rename; `ready` and `gone` (history) are the sessions
that waited, and had ended, at the listing. `Prefix` says whose file
`GetSessionByPipeName` may take for another's. `KtsTelnet`: the bytes received, how far they are
consumed, the commands answered, and the console, buffer and window sizes.

### Sftp

The loop of `SftpLoop` with its buffer and the answers not yet sent, the table of
handles, the current directory, a small tree of files (`disk`), and the client,
who sends requests ahead. A handle is a slot and a path, as its name is;
`leaked` are handles opened for a request that was then refused.

## 4. The runs

Parts that share no state are checked by one run: a variable `part` or `scene` is
chosen at the start, a behaviour is one of one part, and the others rest in one
initial state.

| Run | Instance | Shows |
|---|---|---|
| `handler_safety` | 3 long running requests, 1 network change, 2 threads, no credentials | `NeverRejected`, `AnnouncedIsKnown`, `StaleStartsBounded`, `ImplementsTaskService` |
| `handler_live` | 2 long running requests, 1 endless task, 2 threads | `WorkSettles` (a restart ends in a kill and every request settles until the endless task runs; polls are served also then, with an exhausted pool) |
| `handler_empty_credentials` | 2 long, 1 short, 1 unknown request, 1 network change, 1 shutdown, credentials `""` | `LeakedTaskBlocks` |
| `state_life` | 2 get_state requests, 1 key, 3 applies, the second unreadable | `NeverForgets`, `IndexNotOlderThanJob`, `StartsAfterCleanWrite`, `QuietPolls` |
| `host_requests` | `Monit` (2 services, 1 start request thread, 1 reader, 2 events), `ApplyPlan` (1 fault), `HostSetup` (2 disks, 1 item, 1 fault), `AgentSsh` (2 setups, 2 cleanups of two users, 1 restart) | `HandledStayStopped`, `StartedAreNotDisabled`, `ReportsWereTrue`; `ApplyInv`; `HostKept`; `SshInv` |
| `agent_threads` | `Monit` (1 service, 1 start request thread, 3 events), `NatsStartup` (2 calls, 2 retries) | `OneListener`, `MonitSettles`, `CallsSettle` |
| `ssh_server` | `KtsDaemon` (3 connections of two addresses, 2 sessions, ban after 1, 1 restart), `KtsSetup` (0 or 2 options, texts of 3 of 3 characters, a buffer of 3), `SshTransport` (4 inis, 7 hellos), `SshRekey` (2 exchanges, 7 hellos, one of them too long, 3 group requests), `AutoLogon` | `SessionsBounded`, `BanCounts`, `ClientsAccepted`; `SetupInv`; `TransportInv`, `RekeyInv`, `SessionsKept`; `RulesExact` |
| `ssh_login` | `SshAuth` (2 users, keys and texts, 3 requests, 2 attempts), `Sftp` (4 requests, 2 without an answer, 2 slots) | `AuthInv`, `SftpInv`, `ActsOnNames`, `LoopsAnswer` |
| `ssh_channels` | shell and 2 forwarded channels, window of 4 bytes, 2 packets in flight | `ChannelInv`, `WindowBalance`, `ViewsAgree`, `SessionEndsForCause` |
| `ssh_session` | scenes of up to 3 session processes; scenes of telnet clients | `SessionInv`, `OffersExactly`, `NoneStays`; `InputUnderstood`, `TelnetSettles` |
| `state_replies` | 1 request, 2 keys, 1 apply | finding: `RepliesComplete` violated |
| `autologon_lazy` | 2 rules with a lazy repetition, addresses of up to 5 characters | finding: `LazyRulesMapped` violated |

Some of these are conjunctions of named parts:

- `ApplyInv`: `SavedIsInstalled` (what the state file names is installed and bound),
  `LeftoversDoNotMatter` (what failed steps left behind does not show after a
  later success), `UploadsAreWhole`.
- `HostKept`: `ConfiguredWhenUp`, `WritableAgain` (a migration leaves no read-only
  store), `MigratedAll` (an answered migration took everything along).
- `SshInv`: `SetupStands`, `CleanupStands`, `SshdStays`.
- `BanCounts`: `BansAreEarned`, `CountsExactly`. `SetupInv`: `CursorOnScreen`,
  `SavedAsShown`, `DeletedAreStopping`. `RulesExact`: `GrantsMapped`,
  `PlainRulesExact`, `MatcherEnds`.
- `TransportInv`: `SameKeys`, `SameHash`, `SkipsWrongGuesses`. `RekeyInv`:
  `KeysFollow` (each packet is read with the key it was written with), `SameSum` (both
  sides have one hash, of this exchange), `NothingHalfMade` (an exchange is over on
  both sides or on neither). `SessionsKept`: `SessionsServed` (that is `ClientsServed`
  and `OpenSessionsLast`) and `RekeysServed`. What `KeepsCipher` and `Possible` leave out
  are the re-keys this server cannot make: with another cipher than the session's,
  with group1, after a wrong guess, a hello longer than its copy, no common group.
- `AuthInv`: `CredentialsOfOneRequest`, `AdmittedByRequest`, `OneAnswerEach`,
  `AttemptsBounded`.
- `ChannelInv`: `CurrentChannels`, `ForwardsServed`. `ViewsAgree`: `SidesAgree`,
  `NothingAfterClose`, `RepliesOwed`.
- `SessionInv`: `FilesTellState`, `Advertised`, `OneProxyEach`, `ProxyHasNoShell`,
  `ShutDownIsClean`. `NoneStays`: `SessionsEnd`, `LonelyEnd`. `TelnetSettles`: `NegotiationEnds`, `ScreenFollows`.
- `SftpInv`: `AnsweredInOrder`, `SlotsAccounted`, `WritesLand`. `ActsOnNames`:
  `ActsOnHandle`, `ListsWhatWasOpened`, `RemovesWhatItListed`. `LoopsAnswer`:
  `LoginsEnd`, `SftpAnswers`.
- `WorkSettles`: `EventuallyKilled`, `LongRequestSettles`, `PollsAreServed`. `MonitSettles`:
  `StatusesCatchUp`, `RequestsFinish`.

Each module has one type invariant (`TypeOK` or a name of its own); it is part of
one of these or proved.

Why the bounds are enough. Handler: three requests are the holder of the mutex,
one that waits and one that arrives; two threads make the pool exhaustible, and
while it is, the third request waits for a thread instead of the mutex. State: two
requests are the one that walks the document and the one that adds to it, with
one key that is added or already there; three applies are one before, one that
fails in every way, and one after. NATS: `MaxStarts` calls are the first and one
that is queued while the first exits; only whether `MaxRetries` is exceeded
matters. Monit: two services are one that is handled and one that is next, or two
entries of an enumeration; a start or a stop and one thing that happens to the
host are two events, and the initial states have every combination of installed,
running and described services. Apply and host: one fault per behaviour meets
every step, and the retry after it starts from whatever it left; two specs that
differ in one package, the properties or the deployment are what a plan can
confuse. Ssh: two requests of one user overlap in every order while a third and
fourth of another user share the service. Daemon: two connections of one address
race for the ban files while a third of another address must be served. Channels:
two forwards are one that closes and one that takes its number; a window of two
packets runs out and is refilled. Sessions: a waiting session, the one that
connects to it, and one that comes between; a waiting session whose port begins
with that of one that dies is taken for it. sftp: a window of two is one request
in the buffer behind the one that is answered; three handles are two slots, so
that one is reused while the other is open; four requests are open, read short,
open again, use the old handle. Transport: the lists agree or not in their first
entry, with and without a guess. Re-key: the second exchange is the one that would
meet what the first left. Setup: a buffer of three characters cuts what an escaped
line feed makes longer. The proofs need none of the bounds.

Deadlock is checked wherever the modelled system never stops: the agent may
always crash and restart. The runs of the SSH server say `CHECK_DEADLOCK FALSE`,
because sessions, clients and the setup program really end. Other liveness is
stated as properties.

Every property is also run against a mutated model (`mutants` in
`PROJECT.json`); the operators marked "Variant" or "Mutant" in the modules are the mutations,
and nothing else uses them.

What the violated properties say. `RepliesComplete`: a get_state during an apply
leaves without keys it has set, although the class comment of `State` promises
thread safety. `LazyRulesMapped`: `1*?2\.` matches `1212.`, because the lazy loop
does not go back to where the repetition ended, although `slre.h` says `*?` matches
zero or more times.

Met while reading and not made a run:

- `Handler.cs:213`: the process exits after the first failure that reaches the
  catch, although retries are left. `Monit.cs:221`: services of removed jobs are
  started. `State.cs:73`: an empty state file keeps the agent from starting.
- `HostSetup`: a torn `settings.json` keeps the agent from starting for good; a
  migration that is repeated after it succeeded fails and leaves the store
  unmounted; with a third disk mounted it copies to that one. A migration whose
  robocopy prints more than a pipe holds hangs (`MigrateDisk.cs:64`; the same in
  `Drain.cs:217` and `CompilePackage.cs:255`).
- `ApplyPlan`: compile_package's finally deletes all of `data/packages`.
- `AgentSsh`: the setup of an existing user replaces the salt though it cannot
  replace the account, so that password no longer works.
- `KSessionState.hxx:649`: the file looked for is the first whose name begins with
  the address and the port, so when the session on port 12 is gone the one on 123
  may be made a zombie's; it waits on, and nobody is offered it any more. That is
  why `OffersExactly` asks that a session's file is not a zombie's.
- `ssh2_svr.c:974`: the comment says a wrong guess will fail; `OK_SPECIAL` is no
  error to the caller, so the session goes on with no KEXINIT of the server, until
  the client's next packets of the exchange end it. So do the other re-keys listed
  above, with clients that keep to the protocol.
- `KTelnet.hxx:426`: a size is nine bytes; a client doubles a byte of 255 (RFC 1073),
  and such a size is read wrongly. Reads that cut a command in two lose it
  (`session.cut`). `InputUnderstood` and `ScreenFollows` speak of neither.
- `ssh2_msg.c:422`: an EOF is handled as a CLOSE. `KPortforward.hxx:277`: the limit
  of forwards is off by one: the entry behind the last, made for a channel too many
  and emptied when that is closed, is then taken for a free one. With fewer forwards
  than channels (`kts.ini:63` says 15, `ssh2_chn.c:78` 40) the channel in it loses it
  to the next channel too many and stays open with no socket and no entry. So
  `ForwardsServed` is stated, and proved, up to the limit: while the table has not
  grown past it, or if there are as many forwards as channels. With `MaxChannels = 2`
  and `MaxForwards = 1` and without that condition TLC finds it violated.

## 5. Fairness

Fairness is the scheduling of Windows, of the thread pool and of the timers, and
nothing else: never of the director, a client who may leave, the host or a crash.

`AgentHandler`: weak fairness of the NATS thread, of each work item that has or
can get a thread, and of the 15 second sleep of a kill. Weak fairness is enough
for the mutex because each request takes it once.

`agent_threads` (`ThreadsSpec`): weak fairness of the work items of `StartHandler`
and of each thread of Monit that goes on, of the kill that was decided, and strong
fairness of taking the lock: the timer leaves the lock free for six seconds
(`poolTime`) after each Run, so a thread that waits gets it.

`ssh_server`: the accepting thread; that a client who was refused closes its half
of the connection (the daemon waits for it: this is an assumption about clients,
`ClientsAccepted` is false without it); the thread of a session; that a client
who stays reads what came; and in a re-key that each side takes a packet that has
arrived (`Inbound`, `Outbound`). `ssh_login`: the thread of the session, the clock of the
login, the health monitor, the exit of the process and a client that reads; the
sftp loop. `ssh_session`: the four threads of each process, limits of time of
processes that meet faults, the telnet loop and a client that reads.
`ssh_channels`, `state_life`, `host_requests` and `handler_safety` assume none.

## 6. What is proved

In each module the inductive invariant was first checked by TLC as an invariant of
the run that covers the module. The assumptions on the constants are named in the
modules; the runs evaluate them.

`AgentHandlerProofs`: for every set of requests, every pool size and every kind
of credentials, `TypeOK`, `HandlerInv`, `NeverRejected`, `AnnouncedIsKnown`,
`AnswersAreFinal`, `StaleStartsBounded`, `LeakedTaskBlocks`, and that the
handler implements `TaskService`. Assumption: `HandlerAssumption`, the classes of requests are
disjoint and the pool has at least one thread.

The argument. `LockInv` says the mutex and the positions agree; `TaskInv` that a
registered id is exactly that of the holder, or one leaked by a Publish that
throws; `ResultInv` that a result is recorded before the id goes away; hence
an announced task is in one of the two collections at every moment. `PollInv`
carries that across the two unlocked reads of a poll: not registered when the
first read looked means finished, so the second read finds it. Without `PollInv`
`AnnouncedIsKnown` is not inductive: a poll half way through would be free to
conclude anything. The refinement follows from the same parts: the answer is
decided at the read that settles it. A leaked id blocks because it is the only one
registered: nobody else can be at a step that announces or removes.
`RestartInv` is a second inductive invariant: the threads of the pool are counted,
and once the flag is set those who read it before and those who have started on
that read (the history variable `late`) are together fewer than the threads,
since whoever sets the flag has a thread and is neither.

`AgentRequestsProofs`, on `StateFile`: for every number of requests, keys and applies, `TypeOK`,
`StateInv`, `NeverForgets`, `IndexNotOlderThanJob`, `QuietPolls`,
`StartsAfterCleanWrite`, `SettledStateAgrees`. Assumption:
`StateFileAssumption`.

The argument. The versions are ordered `reported <= data <= file <= writer` while
the process runs, `job <= data`, and a start sets `data` to the file's version;
`WriterInv` says which of them are equal at which position of Write, `SettledInv`
that a file whose last Write ran to its end can be read. For `QuietPolls`,
`ReaderInv` says that a request whose document was not replaced has put on it
every key it has passed, so that at its walk the document has all keys and
another request can only overwrite values.

`AgentThreadsProofs`, on `NatsStartup`: for every number of retries and of calls,
`StartupInv` and `OneListener`. Assumption: `NatsStartupAssumption`. A call of
`StartHandler` is made only by one whose next statement ends the process
(`ChainOfCalls`), and a reactor subscribes once (`ReactorInv`); so two
subscriptions need two calls, and the earlier one is about to exit.

`AgentThreadsProofs`, on `Monit`: for any services, start request threads, readers
and number of events, `TypeOK`, `MonitInv`, `HandledStayStopped`,
`StartedAreNotDisabled`, `ReportsWereTrue`. Assumption: `MonitAssumption`, the
threads that serve start requests are not the timer, the execution thread or the
worker.

The argument. `LockInv` ties the lock to the steps between its two ends, so the
dictionary changes only in the hands of one thread (lemmas `Alone`, `WhoWrites`).
`StopInv` says that the service being handled is disabled unless somebody
removed it, hence nobody starts it, and that it is down when the finally
begins unless a failure was logged: without it `HandledStayStopped` is not
inductive, as the last step for a service only counts it as handled.
`StartedAreNotDisabled` holds because whoever disables a service holds the same
lock. `ReportInv` says what an enumeration that is not thrown out knows: the
answers that were right so far include those of the dictionary as it is, and
every entry it has visited is still running but for one that is being written,
with which the dictionary was all running a moment ago (`WriteInv` says that a
new entry is blank until its value is there, so nobody has visited it).

`AgentRequestsProofs`, on `AgentSsh`: for any users, setups and cleanups, `SshIndInv`
and `SshInv`. Assumption: `SshAssumption`, a request is of one kind and no request
is named like a mark. `SshInv` speaks of answers only; what a request did before
it answered has to be carried along. `Overlaps` says that whoever is between its
first and last step beside an answered or running request of its user is in that
request's `since`; `SetupsStand` and `CleanupsStand` say what is already done at
each step unless such a request undid it; `PromiseKept`, that sshd runs while
`startTime` is recent, holds because `OkToStop` refuses then and stop and start
hold the same lock.

`AgentRequestsProofs`, on `HostSetup`: for any disks and items, `HostInv` and
`HostKept`. Assumption: `DisksAssumption`. What a request has left is an end of its
list of steps (`RunningInv`), so how many steps are left tells what was done:
`SetupOrder` for Bootstrap, `MigrationInv` for a migration, `ReadOnlyInv` for who
may hold a disk read-only.

`AgentRequestsProofs`, on `ApplyPlan`: for any jobs, packages, specs, compilations
and number of faults, `ApplyIInv` and `ApplyInv`. Assumption: `ApplyAssumption`, a
list names each thing once (the director sends packages and dependencies as a
hash) and no package depends on itself. `ApplyInv` speaks of requests that are
over; the invariant has to say of one under way that it will end well, from the
steps it has left. `Ready` says that each step left finds what it asks for, now or
from a step before it; `Comes` that what is not installed yet comes with a step
that is left (`Whole`, `Leading`, `Bound`), so when only the write of the state is
left, all is installed. A later step must not undo an earlier one: that is
`OneTarget`, a link leads to one directory, which follows from the names being
unique. That every plan is such a list is a lemma on each operator that makes
one: the lists with these properties (`Plans`) are closed under putting one behind
the other (`PlansAdd`), and so under `Each` (`Chains`), by a least counterexample.
`CompilesNow` fixes the last five steps of a compilation by how many are left.

`KtsDaemonProofs`: for any connections, addresses and limits, `SessionsBounded` and
`BanCounts`, from `DaemonInv`. Assumption: `DaemonAssumption`; a `MaxBan` of 99999
or more would make the number of a ban an attempt that is allowed. `Counted` ties
the number in the hands of the accepting thread to the list, `Listed` and `Placed`
say which connection a listed process belongs to and where it is, and `Alone` that
only one is between accept and list; so the list is never longer than the limit,
although processes end at any time and a hand-over may fail.

`KtsDaemonProofs`, on `KtsSetup`: for any number of options, height of the screen
and texts, `SetupIInv` and `SetupInv`. Assumption: `SetupAssumption`. `SavedAsShown` is
about two conversions, `Escaped` when an option is saved and `GetKey` when it is
read. `LineFeeds` undoes `Escaped` only on texts without a backslash before an n
(`Clean`), and the rest of `GetKey` leaves a text alone that neither begins nor ends
with a blank, is in no quotes and fits into the buffer (`Keepable`): a text saved
with such ends, or in quotes, is not read as it was shown, for `SetKey` writes no
quotes around it (`KIni.hxx:38`, `KIni.hxx:274`).
`SavedOK` says that what is typed is clean, since the editor makes a line feed of
the pair as soon as it appears, and that what was saved is in kts.ini escaped;
`LineFeeds(Escaped(p)) = p` for clean `p` is proved place by place, by a least
counterexample. `PlaceOK` adds to `CursorOnScreen` the row the screen begins with.

`SshTransportProofs`: for any kts.ini, hello of a client, group it asks for and
number of packets, `TransportIndInv`, `TransportInv` and the action property
`OpenSessionsLast`. Assumption: `TransportAssumption`, the lists are lists, no
algorithm is called none, and the cipher list of kts.ini names no key exchange.
`TransportInv` speaks of the packet that is read next; that it is readable depends
on everything sent before it. So `OutInv` and `InInv` say of every packet on its
way what it is, by its number: the server's NEWKEYS is number `Switch` (2, or 3
behind a group), and all that follows it carries the new key; the client's may
have any number, as no-ops precede it, so its key is told by its place in the
queue instead (`KeysInOrder`). `HelloTaken` says that the server takes from a
hello what the client chooses, or cannot go on; it rests on lemmas about the
lists, where the two rules differ in what they do with a name that has no row
(`ReadsFirst`, `NegotiatedFirst`). `ServerInv` carries the hash in its stages, so
that a hash is the client's if the group and sizes are (`HashIsSame`). An open
session lasts because what follows the opening of a channel is `AfterOpen`, data
and a disconnect, all of it under the keys the server reads with. The steps of the server behind the exchange and
those of the client are each an instance of a few shapes (`Settles`, `Onward`,
`OneMessage`), proved once.

`SshLoginProofs`, on `SshAuth`: for any users, keys, texts and number of attempts, `AuthIndInv`
and `AuthInv`. Assumption: `AuthAssumption`. A read of the wire ends in one of
three ways (a request to be judged, an answer given inside the library, the end);
`TurnsCounted` ties the attempts to the turns of the loop, `JudgedWhenRead` says
that only what was read is judged, `AdmittedLast` that a success is on its way or
received only once the loop is past its verdict, after which nothing more is read:
that is why one request is answered once and no credentials are mixed.

`SshLoginProofs`, on `Sftp`: for any menu of requests, window and number of handles, `SftpIndInv`,
`SftpInv` and the action property `ActsOnNames`. Assumption: `SftpAssumption`.
`SftpInv` alone is not inductive. `Numbered` says that what was told, is in the
answers, in the buffer and on the wire is numbered in one sequence;
`OpenIsKnown` that the handle of every slot that is not closed is held by the
client, in an answer, in a CLOSE on its way, or leaked; `DiskIsTree` that parents of
what exists are directories and the session stands in one; `WritesLand` that
sequential writes are what the file holds. Each request is one lemma (its outcome
is `Sound`), each step of the loop and of the client another.

`SshChannelProofs`: for any channel numbers, sizes of the window, of a packet and
of the two lists, `IInv`, `ChannelInv`, `WindowBalance`, `ViewsAgree` and the action
property `SessionEndsForCause`. Assumption: `SshChannelAssumption`. None of them is
inductive: each compares a side with what the other will be once the packets in
between have arrived. `AlwaysInv` and `LinkInv` say for one channel number how the
entries of the list, the two queues and the peer's view fit; what they need of a
queue as a whole is its order (`QueueOrder`: nothing follows a CLOSE but an OPEN;
`OutOrder`: a channel is confirmed first and closed last). The sums of
`WindowBalance` and `RepliesOwed` are turned into partial sums, and what they become
when a packet is put behind a queue, taken from its head or when one number
changes is proved once. The thread's part says what the two loops rely on:
`AtResource` that the channel just opened waits for its entry, `Served` that every
other open channel has one, `RoomLeft` that there is an entry for the next,
`AtTransfer` that the loop over the entries has passed only channels that are
there. A C function is one lemma that gives the session it leaves (`Becomes`,
`ClosedFrom`, `Continues`, `Outcome`), a step of a loop or of the peer another.

`KtsSessionProofs`: for any sessions, kinds of clients, faults and scenes,
`SessionIndInv`, `SessionInv` and the action property `OffersExactly`. Assumption:
`SessionAssumption`. `OneProxyEach` is not inductive: nothing in it says what a session knows of its proxy. `KnowsItsProxy`
says that a session whose proxy relays to it has that proxy at its pipe and is
not making another pipe; as a proxy connects only to a pipe with nobody at it,
there is one. `FilesOf` says which files a session can have, given what its
process believes and also when it has ended, and `AsksWhereItSets`, `LoginTells`,
`MainTells` and `ClosedForGood` what the place of each thread tells of flags, lock,
shell and pipe: so `ShutDownThread`, which takes the lock, never meets a shell that
is between its start and its job. A step of a session is one lemma that gives its
new record (`Follows`); that the other sessions still agree with it is proved once
(`OthersAgree`). `OffersExactly` speaks of the last step of a choice, and what the
list then says was found over many: `ChoiceTells` is the invariant that carries it
from the listing on, for every step either has nothing to do with a choice
(`Stands`) or is one of the chooser's that leaves it true (`ChoiceGoesOn`).

Only model-checked: every liveness property; `RekeyInv`; `InputUnderstood` of `KtsTelnet`;
`RulesExact` of `AutoLogon`; the two violated properties.

Out of reach of the prover here: liveness under fairness and ENABLED; and what the
matcher of `AutoLogon` and the byte parser of `KtsTelnet` compute for every input,
as they are recursive operators and the induction theorems of the library cannot
be instantiated. Where a proof needs induction over the places of a sequence (sums,
plans, texts), the function is recursive in its index, and a place where the
statement fails is taken least, by `WFMin` of `WellFoundedInduction`.

## 7. What is left out

The NATS client, Newtonsoft.Json and the utilities library are binaries: modelled
by how the code uses them (a publish is delivered, lost or throws into a catch).
So are Windows accounts, services, disks, pipes and consoles. The logger is
taken not to throw, although the format string at `Handler.cs:416` is malformed and
may. The order in which the pool takes work items is not modelled: any order.
Cryptography is symbolic; the layout of packets and files is not modelled.

Of modelled components: in Monit the double-checked creation of the singleton, the
branch of `GetServiceGroupState` before monit is enabled (the handler starts later)
and a monit file without services; in the session processes the change of an
expired password at the console; in KtsTelnet colours and encodings of the
output; in sftp times and attributes; in cryptlib channels that are neither
session nor direct-tcpip (refused by the code).

Not modelled at all: Drain, FetchLogs and Alert (planned); vitals, Ntp and the
blobstore client (one read or request each, failing steps of their callers); the
export of the screen (what it promises depends on the terminal, and no abstraction
of its data is much shorter than the code); the rest of cryptlib, the Ruby files
and YamlSerializer (third party code); stubs (AgentController, HttpHandler,
AlertProcessor, the AWS registry, EncryptionHandler).
