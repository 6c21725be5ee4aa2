------------------------------ MODULE Bootstrap -----------------------------
(***************************************************************************)
(* Starting a session on a remote host: `goet [--install] host`, run again *)
(* and again against the same host.  SpawnSSH checks the remote version,   *)
(* installs the binary if it must, starts `goet session` through ssh,      *)
(* hands it a passkey, reads the port it prints and kills ssh.  The        *)
(* session it starts (runSession) is a process of its own: it loses its    *)
(* stdin, stdout and stderr with ssh, at a moment of its own.              *)
(*                                                                         *)
(* A binary is its version: "cur" is the client's own commit, "other" the  *)
(* commit of a published release, "broken" a file that does not run.       *)
(***************************************************************************)
EXTENDS Integers

CONSTANTS MaxRuns   \* bound: how often the user runs goet

ASSUME BootstrapAssumption == MaxRuns \in Nat \ {0}

Run == 1 .. MaxRuns

VARIABLES
  host,     \* what does not change: the remote host and the published release
  abs,      \* the binary at ~/.local/bin/goet on the host
  runs,     \* the run under way; it stands for its passkey, too
  at,       \* where SpawnSSH is
  install,  \* --install was given
  goetPath, \* the command that starts the session
  payload,  \* the binary to transfer
  tmp,      \* downloadRelease's temporary file exists
  ssh,      \* spawnSSH's child: "none", "run" or "exited"
  port,     \* the session's port is in ssh's stdout
  fault,    \* history: the network, a timeout or a bind failed in this run
  ses       \* the sessions the runs started

bootVars == <<host, abs, runs, at, install, goetPath, payload, tmp, ssh, port, fault, ses>>

Hosts ==
  [ sys     : {"none", "old", "cur"},      \* goet elsewhere in PATH, before ~/.local/bin
    inPath  : BOOLEAN,                     \* ~/.local/bin is in PATH
    arch    : {"same", "cross", "unknown"},
    release : {"cur", "other"},            \* the latest release
    canLog  : BOOLEAN,                     \* /tmp/goet-<id>.log can be opened
    banner  : BOOLEAN ]                    \* the login shell prints something

Images == {"none", "old", "other", "cur", "broken"}

Sessions == [st : {"none", "start", "keyed", "listen", "up", "dead"},
             from : {"sys", "abs"}, ver : Images]

NoSession == [st |-> "none", from |-> "sys", ver |-> "none"]

\* Every variable keeps its type; in particular what is transferred is always a
\* whole binary that runs (downloadRelease and os.Executable give nothing else).
BootTypeOK ==
  /\ host \in Hosts /\ abs \in Images
  /\ runs \in 0 .. MaxRuns
  /\ at \in {"idle", "version", "versionAbs", "arch", "download", "transfer", "copy",
             "spawn", "port", "client", "failed"}
  /\ install \in BOOLEAN
  /\ goetPath \in {"goet", "~/.local/bin/goet"}
  /\ payload \in {"none", "cur", "other"}
  /\ tmp \in BOOLEAN
  /\ ssh \in {"none", "run", "exited"}
  /\ port \in BOOLEAN /\ fault \in BOOLEAN
  /\ ses \in [Run -> Sessions]

BootInit ==
  /\ host \in Hosts
  /\ abs \in {"none", "old", "cur"}
  /\ runs = 0 /\ at = "idle" /\ install = FALSE
  /\ goetPath = "goet" /\ payload = "none"
  /\ tmp = FALSE /\ ssh = "none" /\ port = FALSE /\ fault = FALSE
  /\ ses = [r \in Run |-> NoSession]

-----------------------------------------------------------------------------
(* The remote host.                                                        *)

\* Where the shell finds a command.
Where(path) == IF path = "goet" /\ host.sys # "none" THEN "sys" ELSE "abs"

\* The binary a command runs.
Image(path) ==
  IF path # "goet" THEN abs
  ELSE IF host.sys # "none" THEN host.sys
  ELSE IF host.inPath THEN abs ELSE "none"

Runs(path) == Image(path) \notin {"none", "broken"}

Alive(r) == ses[r].st \notin {"none", "dead"}

\* A running executable cannot be opened for writing.
Busy == \E r \in Run : Alive(r) /\ ses[r].from = "abs"

-----------------------------------------------------------------------------
(* SpawnSSH.                                                               *)

\* The user runs goet; without --install it goes straight to spawnSSH.
SpawnSSH(i) ==
  /\ at = "idle" /\ runs < MaxRuns
  /\ runs' = runs + 1
  /\ install' = i
  /\ at' = IF i THEN "version" ELSE "spawn"
  /\ goetPath' = "goet" /\ payload' = "none"
  /\ fault' = FALSE /\ port' = FALSE
  /\ UNCHANGED <<host, abs, tmp, ssh, ses>>

\* A command over ssh fails, by the network or by its timeout.
Fails == fault' = TRUE
Works == fault' = fault

\* SpawnSSH returns an error.
Fail == at' = "failed"

\* spawnWithInstall, with the answer of getRemoteVersion: the current version is
\* started from PATH; no answer, or one that parseVersionOutput cannot read, and
\* every other version lead to installRemote.
Decide(path) ==
  at' = IF Image(path) = "cur" /\ ~host.banner THEN "spawn" ELSE "arch"

\* getRemoteVersion, first the goet in PATH ...
VersionPath ==
  /\ at = "version"
  /\ \/ Runs("goet") /\ Works /\ Decide("goet")
     \/ ~Runs("goet") /\ Works /\ at' = "versionAbs"
     \/ Fails /\ at' = "versionAbs"
  /\ UNCHANGED <<host, abs, runs, install, goetPath, payload, tmp, ssh, port, ses>>

\* Mutant: a binary that fails to run is reported, not replaced.
VersionAbsGivesUp ==
  /\ at = "versionAbs"
  /\ \/ Runs("~/.local/bin/goet") /\ Works /\ Decide("~/.local/bin/goet")
     \/ ~Runs("~/.local/bin/goet") /\ Works /\ at' = IF abs = "none" THEN "arch" ELSE "failed"
     \/ Fails /\ at' = "arch"
  /\ UNCHANGED <<host, abs, runs, install, goetPath, payload, tmp, ssh, port, ses>>

\* ... and if that fails, the one that --install puts there.
VersionAbs ==
  /\ at = "versionAbs"
  /\ \/ Runs("~/.local/bin/goet") /\ Works /\ Decide("~/.local/bin/goet")
     \/ ~Runs("~/.local/bin/goet") /\ Works /\ at' = "arch"
     \/ Fails /\ at' = "arch"
  /\ UNCHANGED <<host, abs, runs, install, goetPath, payload, tmp, ssh, port, ses>>

\* installRemote: detectRemoteArch; the client's own binary if it fits.
DetectArch ==
  /\ at = "arch"
  /\ \/ Fails /\ Fail /\ payload' = payload
     \/ Works /\ (host.banner \/ host.arch = "unknown") /\ Fail /\ payload' = payload
     \/ Works /\ ~host.banner /\ host.arch = "same" /\ at' = "transfer" /\ payload' = "cur"
     \/ Works /\ ~host.banner /\ host.arch = "cross" /\ at' = "download" /\ payload' = payload
  /\ UNCHANGED <<host, abs, runs, install, goetPath, tmp, ssh, port, ses>>

\* downloadRelease: its temporary file is kept only on success.
DownloadRelease ==
  /\ at = "download"
  /\ \/ Works /\ tmp' = TRUE /\ payload' = host.release /\ at' = "transfer"
     \/ Fails /\ Fail /\ UNCHANGED <<tmp, payload>>
  /\ UNCHANGED <<host, abs, runs, install, goetPath, ssh, port, ses>>

\* transferBinary begins: the remote shell opens (and empties) the file.
TransferBinary ==
  /\ at = "transfer"
  /\ \/ Works /\ ~Busy /\ abs' = "broken" /\ at' = "copy" /\ tmp' = tmp
     \/ Works /\ Busy /\ Fail /\ abs' = abs /\ tmp' = FALSE
     \/ Fails /\ Fail /\ abs' = abs /\ tmp' = FALSE
  /\ UNCHANGED <<host, runs, install, goetPath, payload, ssh, port, ses>>

\* Mutant: an upgrade starts the goet that was found in PATH.
TransferredFromPath ==
  /\ at = "copy"
  /\ tmp' = FALSE
  /\ \/ /\ Works /\ abs' = payload /\ at' = "spawn"
        /\ goetPath' = IF Runs("goet") THEN "goet" ELSE "~/.local/bin/goet"
     \/ Fails /\ abs' \in {"broken", payload} /\ Fail /\ goetPath' = goetPath
  /\ UNCHANGED <<host, runs, install, payload, ssh, port, ses>>

\* It ends, installRemote's cleanup with it: the file is whole and executable, or
\* ssh failed, whatever the remote cat and chmod had done or still do.
Transferred ==
  /\ at = "copy"
  /\ tmp' = FALSE
  /\ \/ Works /\ abs' = payload /\ at' = "spawn" /\ goetPath' = "~/.local/bin/goet"
     \/ Fails /\ abs' \in {"broken", payload} /\ Fail /\ goetPath' = goetPath
  /\ UNCHANGED <<host, runs, install, payload, ssh, port, ses>>

\* spawnSSH: start ssh with a fresh passkey and write the passkey to its stdin.
\* The command runs, or ssh exits: without the binary, or without the host.
SpawnSession ==
  /\ at = "spawn"
  /\ \/ /\ Works /\ Runs(goetPath)
        /\ ssh' = "run"
        /\ ses' = [ses EXCEPT ![runs] = [st |-> "start", from |-> Where(goetPath),
                                         ver |-> Image(goetPath)]]
     \/ Works /\ ~Runs(goetPath) /\ ssh' = "exited" /\ ses' = ses
     \/ Fails /\ ssh' = "exited" /\ ses' = ses
  /\ at' = "port"
  /\ UNCHANGED <<host, abs, runs, install, goetPath, payload, tmp, port>>

\* killAndReap.
KillAndReap == ssh' = "none"

\* Mutant: the port is parsed as a signed 16-bit number.
PortArrivesInt16 ==
  /\ at = "port" /\ port /\ ~host.banner
  /\ KillAndReap
  /\ at' \in {"client", "failed"}
  /\ UNCHANGED <<host, abs, runs, install, goetPath, payload, tmp, port, fault, ses>>

\* readPort returns the port; ssh has done its work.
PortArrives ==
  /\ at = "port" /\ port /\ ~host.banner
  /\ KillAndReap
  /\ at' = "client"
  /\ UNCHANGED <<host, abs, runs, install, goetPath, payload, tmp, port, fault, ses>>

\* The first line on stdout is not a port.
PortInvalid ==
  /\ at = "port" /\ host.banner /\ (ssh = "run" \/ port)
  /\ KillAndReap
  /\ Fail
  /\ UNCHANGED <<host, abs, runs, install, goetPath, payload, tmp, port, fault, ses>>

\* ssh is gone: its stdout ends without a line, or the passkey could not be written.
PortEOF ==
  /\ at = "port" /\ ssh = "exited" /\ ~port
  /\ KillAndReap
  /\ Fail
  /\ UNCHANGED <<host, abs, runs, install, goetPath, payload, tmp, port, fault, ses>>

\* No line within sshTimeout.
PortTimeout ==
  /\ at = "port"
  /\ KillAndReap
  /\ Fail /\ Fails
  /\ UNCHANGED <<host, abs, runs, install, goetPath, payload, tmp, port, ses>>

\* runSSHClient exits with the error.
ExitFailed ==
  /\ at = "failed"
  /\ at' = "idle"
  /\ UNCHANGED <<host, abs, runs, install, goetPath, payload, tmp, ssh, port, fault, ses>>

\* The client is done; its session ends with it, or stays behind.
ClientEnds ==
  /\ at = "client"
  /\ at' = "idle"
  /\ \E st \in {"up", "dead"} : ses' = [ses EXCEPT ![runs].st = st]
  /\ UNCHANGED <<host, abs, runs, install, goetPath, payload, tmp, ssh, port, fault>>

-----------------------------------------------------------------------------
(* ssh and the session it started.                                         *)

\* ssh ends: with the remote command, or because the network fails it.  The
\* port may be in its stdout already.
SshEnds ==
  /\ ssh = "run"
  /\ ssh' = "exited"
  /\ \/ Works /\ ses[runs].st = "dead" /\ port' = port
     \/ Fails /\ port' \in {port, FALSE}
  /\ UNCHANGED <<host, abs, runs, at, install, goetPath, payload, tmp, ses>>

\* Session r still has the standard streams that ssh gave it.
HasSsh(r) == r = runs /\ ssh = "run"

Becomes(r, st) == ses' = [ses EXCEPT ![r].st = st]

\* runSession reads its passkey; with ssh gone it may find the end of stdin.
ReadPasskey(r) ==
  /\ ses[r].st = "start"
  /\ \/ Becomes(r, "keyed")
     \/ ~HasSsh(r) /\ Becomes(r, "dead")
  /\ UNCHANGED <<host, abs, runs, at, install, goetPath, payload, tmp, ssh, port, fault>>

\* Session.Run binds its port, or fails and exits.
Listen(r) ==
  /\ ses[r].st = "keyed"
  /\ \/ Becomes(r, "listen") /\ Works
     \/ Becomes(r, "dead") /\ (IF r = runs THEN Fails ELSE Works)
  /\ UNCHANGED <<host, abs, runs, at, install, goetPath, payload, tmp, ssh, port>>

\* runSession prints the port.  When ssh is gone this is its death by SIGPIPE,
\* unless the remote end has not noticed yet.
PrintPort(r) ==
  /\ ses[r].st = "listen"
  /\ \/ Becomes(r, "up") /\ port' = (port \/ HasSsh(r))
     \/ ~HasSsh(r) /\ Becomes(r, "dead") /\ port' = port
  /\ UNCHANGED <<host, abs, runs, at, install, goetPath, payload, tmp, ssh, fault>>

\* Mutant: a log file that cannot be opened is replaced by stderr.
LogWriterStderr == IF host.canLog THEN "file" ELSE "stderr"

\* Where the session's log goes.  Without a log file LogWriter holds a nil
\* *os.File, which is not a nil LogWriter: the log goes nowhere, not to stderr.
LogWriter == IF host.canLog THEN "file" ELSE "nowhere"

\* The session logs; on a stderr that is gone this is its death by SIGPIPE.
SessionLogs(r) ==
  /\ ses[r].st = "up"
  /\ Becomes(r, IF LogWriter = "stderr" /\ ~HasSsh(r) THEN "dead" ELSE "up")
  /\ UNCHANGED <<host, abs, runs, at, install, goetPath, payload, tmp, ssh, port, fault>>

-----------------------------------------------------------------------------

SpawnStep ==
  \/ VersionPath \/ VersionAbs \/ DetectArch \/ DownloadRelease
  \/ TransferBinary \/ Transferred
  \/ SpawnSession \/ PortArrives \/ PortInvalid \/ PortEOF \/ PortTimeout

RemoteStep(r) == ReadPasskey(r) \/ Listen(r) \/ PrintPort(r) \/ SessionLogs(r)

BootNext ==
  \/ \E i \in BOOLEAN : SpawnSSH(i)
  \/ SpawnStep \/ ExitFailed \/ ClientEnds \/ SshEnds
  \/ \E r \in Run : RemoteStep(r)

BootSpec == BootInit /\ [][BootNext]_bootVars

-----------------------------------------------------------------------------
(* Properties.                                                             *)

\* The client that SpawnSSH hands a port and a passkey to has its session: the
\* one that read this passkey has printed its port and is still there, although
\* ssh and the streams it inherited from ssh are gone.
\* The first conjunct is the type invariant.
ClientHasSession ==
  /\ BootTypeOK
  /\ at = "client" => ses[runs].st = "up"

\* `goet --install`, undisturbed, never starts the outdated binary it was asked to
\* replace: the session runs the client's commit, or across architectures the
\* latest release, whichever of the two paths on the host holds what.
InstallRunsCurrent ==
  at = "client" /\ install /\ ~fault =>
    \/ ses[runs].ver = "cur"
    \/ host.arch = "cross" /\ ses[runs].ver = host.release

\* Undisturbed, goet fails for no other reason than these.  A shell that prints a
\* banner; without --install, no goet in PATH that runs; with --install an
\* architecture without a build, a session that still runs the file to replace,
\* or the current version at ~/.local/bin and that not in PATH.  In particular a
\* file left broken by an earlier transfer is replaced.
FailsOnlyIf ==
  [][ at # "failed" /\ at' = "failed" /\ ~fault' =>
        \/ host.banner
        \/ ~install /\ ~Runs("goet")
        \/ install /\ (host.arch = "unknown" \/ Busy)
        \/ install /\ abs = "cur" /\ ~Runs("goet") ]_bootVars

\* A run that fails leaves a session on the host only if ssh was lost or timed
\* out under it, or a banner was taken for its port: no other error path gives
\* up on a session that has started.  However SpawnSSH returns, its ssh child is
\* reaped and its download removed (install.go and ssh.go, the deferred calls).
NothingLeft ==
  /\ at = "failed" /\ Alive(runs) => fault \/ host.banner
  /\ at \in {"idle", "client", "failed"} => ssh = "none" /\ ~tmp
=============================================================================
