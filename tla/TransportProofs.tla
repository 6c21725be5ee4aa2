-------------------------- MODULE TransportProofs ---------------------------
(***************************************************************************)
(* How two programs come together: the start of the session through ssh    *)
(* (Bootstrap), for every host and number of runs; the listener            *)
(* (DualListener), for any number of clients and any capacity of connCh;   *)
(* and one connection with bounded buffers (FlowControl), for every choice *)
(* of the bounds.                                                          *)
(***************************************************************************)
EXTENDS FlowControl, DualListener, Bootstrap, TLAPS

-----------------------------------------------------------------------------
(* The start of the session.                                               *)

\* What --install may put on the host.
Wanted(v) == v = "cur" \/ (host.arch = "cross" /\ v = host.release)

\* The steps of installRemote.
Installing == {"version", "versionAbs", "arch", "download", "transfer", "copy"}

\* The command that spawnSSH starts after an undisturbed installRemote.
Chosen ==
  \/ goetPath = "goet" /\ (Image("goet") = "cur" \/ (~Runs("goet") /\ abs = "cur"))
  \/ goetPath = "~/.local/bin/goet" /\ Wanted(abs)

\* One run after the other: the session of a run exists once ssh was started, its
\* port only after that, and what a run opens it closes.
RunInv ==
  /\ at # "idle" => runs \in Run
  /\ ssh # "none" <=> at = "port"
  /\ tmp => at \in {"transfer", "copy"}
  /\ \A r \in Run : r > runs => ses[r].st = "none"
  /\ at \in Installing \cup {"spawn"} => ses[runs].st = "none" /\ ~port
  /\ port /\ at \in {"port", "client"} => ses[runs].st = "up"
  /\ at = "client" => port

\* An undisturbed run starts what it chose, and its ssh lasts as long as the session.
ChoiceInv ==
  /\ at \in Installing => install /\ goetPath = "goet"
  /\ ~install => goetPath = "goet"
  /\ at = "versionAbs" /\ ~fault => ~Runs("goet")
  /\ at = "download" => host.arch = "cross"
  /\ at \in {"transfer", "copy"} => Wanted(payload)
  /\ at \in {"spawn", "port"} /\ install /\ ~fault => Chosen
  /\ at \in {"port", "client"} /\ install /\ ~fault /\ ses[runs].st # "none" =>
       Wanted(ses[runs].ver)
  /\ at = "port" /\ ~fault =>
       \/ ssh = "run" /\ Alive(runs)
       \/ ssh = "exited" /\ ~Runs(goetPath) /\ ses[runs].st = "none"
  /\ at = "failed" /\ Alive(runs) => fault \/ host.banner

\* The inductive invariant of the start.
BootInv == BootTypeOK /\ RunInv /\ ChoiceInv

\* A session's stage changes and nothing else of it.
LEMMA StageTyped ==
  ASSUME BootTypeOK, NEW r \in Run, NEW st \in {"none", "start", "keyed", "listen", "up", "dead"}
  PROVE  /\ [ses EXCEPT ![r].st = st] \in [Run -> Sessions]
         /\ [ses EXCEPT ![r].st = st][r].st = st /\ [ses EXCEPT ![r].st = st][r].ver = ses[r].ver
         /\ \A q \in Run \ {r} : [ses EXCEPT ![r].st = st][q] = ses[q]
BY DEF BootTypeOK, Sessions

\* Every step keeps the types; above all it is a whole binary that is transferred.
LEMMA BootTypeStep ==
  ASSUME BootTypeOK, RunInv, [BootNext]_bootVars
  PROVE  BootTypeOK'
<1> DEFINE Rest == /\ host' \in Hosts /\ abs' \in Images /\ runs' \in 0 .. MaxRuns
                   /\ install' \in BOOLEAN /\ goetPath' \in {"goet", "~/.local/bin/goet"}
                   /\ payload' \in {"none", "cur", "other"}
                   /\ ses' \in [Run -> Sessions]
           Control == /\ at' \in {"idle", "version", "versionAbs", "arch", "download",
                                  "transfer", "copy", "spawn", "port", "client", "failed"}
                      /\ ssh' \in {"none", "run", "exited"}
           Flags == tmp' \in BOOLEAN /\ port' \in BOOLEAN /\ fault' \in BOOLEAN
<1>t. /\ host \in Hosts /\ host.release \in {"cur", "other"}
      /\ abs \in Images /\ payload \in {"none", "cur", "other"}
      /\ tmp \in BOOLEAN /\ port \in BOOLEAN /\ fault \in BOOLEAN
      /\ runs \in 0 .. MaxRuns /\ MaxRuns \in Nat
      /\ at # "idle" => runs \in Run
      /\ {"none", "old", "other", "cur", "broken"} = Images
  BY BootstrapAssumption DEF BootTypeOK, Hosts, Images, RunInv
<1>i. \A p : Image(p) \in Images /\ Where(p) \in {"sys", "abs"}
  BY <1>t DEF Image, Where, Hosts, Images
<1>0. Rest /\ Control /\ Flags => BootTypeOK'
  BY DEF BootTypeOK
<1>1. ASSUME NEW i \in BOOLEAN, SpawnSSH(i)
      PROVE  BootTypeOK'
  <2>1. Rest
    BY <1>1, <1>t DEF SpawnSSH, BootTypeOK
  <2>2. Control
    BY <1>1 DEF SpawnSSH, BootTypeOK
  <2>3. Flags
    BY <1>1, <1>t, Zenon DEF SpawnSSH
  <2> QED
    BY <1>0, <2>1, <2>2, <2>3
<1>2. CASE SpawnSession
  <2>1. runs \in Run
    BY <1>2, <1>t DEF SpawnSession
  <2>2. [st |-> "start", from |-> Where(goetPath), ver |-> Image(goetPath)] \in Sessions
    BY <1>i DEF Sessions
  <2>3. ses' \in [Run -> Sessions]
    BY <1>2, <2>1, <2>2 DEF SpawnSession, BootTypeOK
  <2>4. Rest
    BY <1>2, <2>3 DEF SpawnSession, BootTypeOK
  <2>5. Control
    BY <1>2 DEF SpawnSession, BootTypeOK
  <2>6. Flags
    BY <1>2, <1>t, Zenon DEF SpawnSession, Works, Fails
  <2> QED
    BY <1>0, <2>4, <2>5, <2>6
<1>3. CASE VersionPath \/ VersionAbs \/ DetectArch \/ DownloadRelease \/ TransferBinary \/ Transferred
  <2>1. Rest
    BY <1>3, <1>t DEF VersionPath, VersionAbs, DetectArch, DownloadRelease, TransferBinary,
       Transferred, BootTypeOK
  <2>2. Control
    BY <1>3 DEF VersionPath, VersionAbs, DetectArch, DownloadRelease, TransferBinary,
       Transferred, Decide, Fail, BootTypeOK
  <2>3. Flags
    BY <1>3, <1>t, Zenon DEF VersionPath, VersionAbs, DetectArch, DownloadRelease,
       TransferBinary,
       Transferred, Works, Fails
  <2> QED
    BY <1>0, <2>1, <2>2, <2>3
<1>4. CASE PortArrives \/ PortInvalid \/ PortEOF \/ PortTimeout \/ ExitFailed \/ SshEnds
  <2>1. Rest
    BY <1>4, Zenon DEF PortArrives, PortInvalid, PortEOF, PortTimeout, ExitFailed, SshEnds,
       BootTypeOK
  <2>2. Control
    BY <1>4, Zenon DEF PortArrives, PortInvalid, PortEOF, PortTimeout, ExitFailed, SshEnds,
       KillAndReap, Fail, BootTypeOK
  <2>3. Flags
    BY <1>4, <1>t, Zenon DEF PortArrives, PortInvalid, PortEOF, PortTimeout, ExitFailed,
       SshEnds,
       Works, Fails
  <2> QED
    BY <1>0, <2>1, <2>2, <2>3
<1>5. CASE ClientEnds
  <2>1. runs \in Run
    BY <1>5, <1>t DEF ClientEnds
  <2>2. PICK st \in {"up", "dead"} : ses' = [ses EXCEPT ![runs].st = st]
    BY <1>5, Zenon DEF ClientEnds
  <2>3. ses' \in [Run -> Sessions]
    BY <2>1, <2>2, StageTyped, Zenon
  <2> QED
    BY <1>5, <2>3 DEF ClientEnds, BootTypeOK
<1>6. ASSUME NEW r \in Run, RemoteStep(r)
      PROVE  BootTypeOK'
  <2>1. PICK st \in {"none", "start", "keyed", "listen", "up", "dead"} : Becomes(r, st)
    BY <1>6 DEF RemoteStep, ReadPasskey, Listen, PrintPort, SessionLogs
  <2>2. ses' \in [Run -> Sessions]
    BY <2>1, StageTyped, Zenon DEF Becomes
  <2>3. UNCHANGED <<host, abs, runs, at, install, goetPath, payload, tmp, ssh>>
    BY <1>6 DEF RemoteStep, ReadPasskey, Listen, PrintPort, SessionLogs
  <2>4. Flags
    BY <1>6, <1>t, Zenon DEF RemoteStep, ReadPasskey, Listen, PrintPort, SessionLogs,
       Works, Fails
  <2> QED
    BY <2>2, <2>3, <2>4 DEF BootTypeOK
<1>7. CASE UNCHANGED bootVars
  BY <1>7 DEF bootVars, BootTypeOK
<1> QED
  BY <1>1, <1>2, <1>3, <1>4, <1>5, <1>6, <1>7 DEF BootNext, SpawnStep

\* A run's session and its port come after its ssh, and its ssh, its download and
\* its port end with it.
LEMMA RunStep ==
  ASSUME BootInv, [BootNext]_bootVars
  PROVE  RunInv'
<1> USE BootstrapAssumption DEF BootInv, BootTypeOK, RunInv, Run, Sessions, NoSession, Installing
<1>1. ASSUME NEW i \in BOOLEAN, SpawnSSH(i)
      PROVE  RunInv'
  BY <1>1 DEF SpawnSSH
<1>2. CASE VersionPath
  BY <1>2 DEF VersionPath, Works, Fails, Fail, KillAndReap, Decide
<1>3. CASE VersionAbs
  BY <1>3 DEF VersionAbs, Works, Fails, Fail, KillAndReap, Decide
<1>4. CASE DetectArch
  BY <1>4 DEF DetectArch, Works, Fails, Fail, KillAndReap, Decide
<1>5. CASE DownloadRelease
  BY <1>5 DEF DownloadRelease, Works, Fails, Fail, KillAndReap, Decide
<1>6. CASE TransferBinary
  BY <1>6 DEF TransferBinary, Works, Fails, Fail, KillAndReap, Decide
<1>7. CASE Transferred
  BY <1>7 DEF Transferred, Works, Fails, Fail, KillAndReap, Decide
<1>8. CASE SpawnSession
  <2>1. runs \in Run /\ ~port /\ ~tmp
    BY <1>8 DEF SpawnSession
  <2>2. /\ at' = "port" /\ ssh' # "none" /\ UNCHANGED <<runs, port, tmp>>
        /\ \A q \in Run : q # runs => ses'[q] = ses[q]
    BY <1>8, <2>1, Zenon DEF SpawnSession
  <2> QED
    BY <2>1, <2>2
<1>9. CASE PortArrives
  BY <1>9 DEF PortArrives, Works, Fails, Fail, KillAndReap, Decide
<1>10. CASE PortInvalid
  BY <1>10 DEF PortInvalid, Works, Fails, Fail, KillAndReap, Decide
<1>11. CASE PortEOF
  BY <1>11 DEF PortEOF, Works, Fails, Fail, KillAndReap, Decide
<1>12. CASE PortTimeout
  BY <1>12 DEF PortTimeout, Works, Fails, Fail, KillAndReap, Decide
<1>13. CASE ExitFailed
  BY <1>13 DEF ExitFailed, Works, Fails, Fail, KillAndReap, Decide
<1>14. CASE ClientEnds
  BY <1>14 DEF ClientEnds, Works, Fails, Fail, KillAndReap, Decide
<1>15. CASE SshEnds
  <2>1. ssh' # "none" /\ at = "port" /\ UNCHANGED <<at, runs, tmp, ses>>
    BY <1>15 DEF SshEnds
  <2>2. port' => port
    BY <1>15, Zenon DEF SshEnds
  <2> QED
    BY <2>1, <2>2
<1>16. ASSUME NEW r \in Run, ReadPasskey(r)
      PROVE  RunInv'
  BY <1>16, SMTT(30) DEF ReadPasskey, Works, Fails, Becomes, HasSsh
<1>17. ASSUME NEW r \in Run, Listen(r)
      PROVE  RunInv'
  BY <1>17 DEF Listen, Works, Fails, Becomes, HasSsh
<1>18. ASSUME NEW r \in Run, PrintPort(r)
      PROVE  RunInv'
  <2>1. /\ UNCHANGED <<at, runs, tmp, ssh>> /\ ses[r].st = "listen"
        /\ \A q \in Run : q # r => ses'[q] = ses[q]
        /\ port' /\ ~port => r = runs /\ at = "port" /\ ses'[r].st = "up"
        /\ port => port'
    BY <1>18 DEF PrintPort, Becomes, HasSsh
  <2> QED
    BY <2>1
<1>19. ASSUME NEW r \in Run, SessionLogs(r)
      PROVE  RunInv'
  BY <1>19 DEF SessionLogs, Works, Fails, Becomes, HasSsh, LogWriter
<1>20. CASE UNCHANGED bootVars
  BY <1>20 DEF bootVars
<1> QED
  BY <1>1, <1>2, <1>3, <1>4, <1>5, <1>6, <1>7, <1>8, <1>9, <1>10, <1>11, <1>12, <1>13,
     <1>14, <1>15, <1>16, <1>17, <1>18, <1>19, <1>20, Zenon DEF BootNext, SpawnStep, RemoteStep

\* An undisturbed run starts the command it chose, and gives up on no session that
\* has started.
LEMMA ChoiceStep ==
  ASSUME BootInv, [BootNext]_bootVars
  PROVE  ChoiceInv'
<1> USE BootstrapAssumption DEF BootInv, BootTypeOK, RunInv, ChoiceInv, Run, Sessions, NoSession, Hosts, Images, Image, Runs, Where, Installing, Chosen, Wanted, Alive
<1>1. ASSUME NEW i \in BOOLEAN, SpawnSSH(i)
      PROVE  ChoiceInv'
  BY <1>1 DEF SpawnSSH
<1>2. CASE VersionPath
  <2>1. /\ at = "version" /\ at' \in {"spawn", "arch", "versionAbs"}
        /\ at' = "spawn" => Image("goet") = "cur"
        /\ at' = "versionAbs" /\ ~fault' => ~Runs("goet")
        /\ UNCHANGED <<host, abs, runs, install, goetPath, payload, tmp, ssh, port, ses>>
    BY <1>2 DEF VersionPath, Works, Fails, Decide
  <2> QED
    BY <2>1
<1>3. CASE VersionAbs
  BY <1>3 DEF VersionAbs, Works, Fails, Fail, KillAndReap, Decide
<1>4. CASE DetectArch
  BY <1>4 DEF DetectArch, Works, Fails, Fail, KillAndReap, Decide
<1>5. CASE DownloadRelease
  <2>1. at = "download" /\ at' \in {"transfer", "failed"} /\ host.arch = "cross"
    BY <1>5, SMTT(30) DEF DownloadRelease, Fail
  <2>2. /\ at' = "transfer" => payload' = host.release
        /\ UNCHANGED <<host, abs, runs, install, goetPath, ssh, port, ses>>
    BY <1>5 DEF DownloadRelease, Fail
  <2> QED
    BY <2>1, <2>2
<1>6. CASE TransferBinary
  BY <1>6 DEF TransferBinary, Works, Fails, Fail, KillAndReap, Decide
<1>7. CASE Transferred
  BY <1>7, SMTT(30) DEF Transferred, Works, Fails, Fail, KillAndReap, Decide
<1>8. CASE SpawnSession
  BY <1>8 DEF SpawnSession, Works, Fails, Fail, KillAndReap, Decide
<1>9. CASE PortArrives
  BY <1>9 DEF PortArrives, Works, Fails, Fail, KillAndReap, Decide
<1>10. CASE PortInvalid
  BY <1>10, SMTT(30) DEF PortInvalid, Works, Fails, Fail, KillAndReap, Decide
<1>11. CASE PortEOF
  BY <1>11 DEF PortEOF, Works, Fails, Fail, KillAndReap, Decide
<1>12. CASE PortTimeout
  BY <1>12 DEF PortTimeout, Works, Fails, Fail, KillAndReap, Decide
<1>13. CASE ExitFailed
  BY <1>13 DEF ExitFailed, Works, Fails, Fail, KillAndReap, Decide
<1>14. CASE ClientEnds
  BY <1>14 DEF ClientEnds, Works, Fails, Fail, KillAndReap, Decide
<1>15. CASE SshEnds
  BY <1>15, Zenon DEF SshEnds, Works, Fails, Fail, KillAndReap, Decide
<1>16. ASSUME NEW r \in Run, ReadPasskey(r)
      PROVE  ChoiceInv'
  BY <1>16 DEF ReadPasskey, Works, Fails, Becomes, HasSsh
<1>17. ASSUME NEW r \in Run, Listen(r)
      PROVE  ChoiceInv'
  BY <1>17 DEF Listen, Works, Fails, Becomes, HasSsh
<1>18. ASSUME NEW r \in Run, PrintPort(r)
      PROVE  ChoiceInv'
  BY <1>18 DEF PrintPort, Works, Fails, Becomes, HasSsh
<1>19. ASSUME NEW r \in Run, SessionLogs(r)
      PROVE  ChoiceInv'
  BY <1>19 DEF SessionLogs, Works, Fails, Becomes, HasSsh, LogWriter
<1>20. CASE UNCHANGED bootVars
  BY <1>20 DEF bootVars
<1> QED
  BY <1>1, <1>2, <1>3, <1>4, <1>5, <1>6, <1>7, <1>8, <1>9, <1>10, <1>11, <1>12, <1>13,
     <1>14, <1>15, <1>16, <1>17, <1>18, <1>19, <1>20, Zenon DEF BootNext, SpawnStep,
     RemoteStep

\* The invariant of the runs of goet, over any number of them.
LEMMA BootInvariant == BootSpec => []BootInv
<1>1. BootInit => BootInv
  <2> SUFFICES ASSUME BootInit PROVE BootInv
    OBVIOUS
  <2>1. BootTypeOK
    <3>1. NoSession \in Sessions
      BY DEF Sessions, NoSession, Images
    <3>2. ses \in [Run -> Sessions]
      BY <3>1 DEF BootInit
    <3>3. runs \in 0 .. MaxRuns
      BY BootstrapAssumption DEF BootInit
    <3>4. abs \in Images
      BY DEF BootInit, Images
    <3> QED
      BY <3>2, <3>3, <3>4, Zenon DEF BootInit, BootTypeOK
  <2>2. RunInv
    BY DEF BootInit, RunInv, NoSession, Installing
  <2>3. ChoiceInv
    BY DEF BootInit, ChoiceInv, Installing
  <2> QED
    BY <2>1, <2>2, <2>3 DEF BootInv
<1>2. BootInv /\ [BootNext]_bootVars => BootInv'
  BY BootTypeStep, RunStep, ChoiceStep DEF BootInv
<1> QED
  BY <1>1, <1>2, PTL DEF BootSpec

\* The client that gets a port and a passkey has its session, in every run.
THEOREM BootConnects == BootSpec => []ClientHasSession
<1>1. BootInv => ClientHasSession
  BY DEF BootInv, RunInv, ClientHasSession
<1> QED
  BY <1>1, BootInvariant, PTL

\* After an undisturbed --install the session runs what was to be installed.
THEOREM BootInstalls == BootSpec => []InstallRunsCurrent
<1>1. BootInv => InstallRunsCurrent
  BY DEF BootInv, RunInv, ChoiceInv, InstallRunsCurrent, Wanted
<1> QED
  BY <1>1, BootInvariant, PTL

\* No error path gives up on a session it started, or leaves ssh or a download.
THEOREM BootCleansUp == BootSpec => []NothingLeft
<1>1. BootInv => NothingLeft
  BY DEF BootInv, RunInv, ChoiceInv, NothingLeft
<1> QED
  BY <1>1, BootInvariant, PTL

\* Undisturbed, goet fails for the stated reasons only.
THEOREM BootFails == BootSpec => FailsOnlyIf
<1> DEFINE Reason ==
      \/ host.banner
      \/ ~install /\ ~Runs("goet")
      \/ install /\ (host.arch = "unknown" \/ Busy)
      \/ install /\ abs = "cur" /\ ~Runs("goet")
<1>1. ASSUME BootInv, [BootNext]_bootVars, at # "failed", at' = "failed", ~fault'
      PROVE  Reason
  <2> USE <1>1
  <2>1. CASE DetectArch \/ TransferBinary
    BY <2>1 DEF DetectArch, TransferBinary, Fails, BootInv, ChoiceInv, Installing
  <2>2. CASE DownloadRelease \/ Transferred \/ PortTimeout
    BY <2>2 DEF DownloadRelease, Transferred, PortTimeout, Fails
  <2>3. CASE PortInvalid
    BY <2>3 DEF PortInvalid
  <2>4. CASE PortEOF
    <3>1. ~Runs(goetPath) /\ (~install => goetPath = "goet") /\ (install => Chosen)
      BY <2>4 DEF PortEOF, BootInv, ChoiceInv
    <3>2. Wanted(abs) => abs \in {"cur", "other"}
      BY DEF BootInv, BootTypeOK, Hosts, Wanted
    <3> QED
      BY <3>1, <3>2 DEF Chosen, Runs, Image
  <2> QED
    BY <2>1, <2>2, <2>3, <2>4, Zenon DEF BootNext, SpawnStep, RemoteStep, SpawnSSH,
       VersionPath, VersionAbs,
       Decide, SpawnSession, PortArrives, ExitFailed, ClientEnds, SshEnds, ReadPasskey,
       Listen,
       PrintPort, SessionLogs, bootVars
<1>2. BootInv /\ [BootNext]_bootVars =>
        [at # "failed" /\ at' = "failed" /\ ~fault' => Reason]_bootVars
  BY <1>1
<1> QED
  BY <1>2, BootInvariant, PTL DEF BootSpec, FailsOnlyIf

-----------------------------------------------------------------------------
(* The listener.                                                           *)

\* The places a connection may be in, from its accept to the session.
IsHeld(k) ==
  \/ \E t \in Loops : cur[t] = k
  \/ \E i \in DOMAIN connCh : connCh[i] = k
  \/ acceptCh = k
  \/ conn = k

\* No two places hold the same connection.
Distinct ==
  /\ \A t, u \in Loops : cur[t] = cur[u] /\ cur[t] # None => t = u
  /\ \A i, j \in DOMAIN connCh : connCh[i] = connCh[j] => i = j
  /\ \A t \in Loops : \A i \in DOMAIN connCh : cur[t] # connCh[i]
  /\ \A t \in Loops : cur[t] # None => cur[t] # acceptCh /\ cur[t] # conn
  /\ \A i \in DOMAIN connCh : connCh[i] # acceptCh /\ connCh[i] # conn
  /\ conn # None => conn # acceptCh

\* Until the session exits, the open connections are those in exactly one place.
HeldInv ==
  /\ \A t \in Loops : cur[t] # None <=> pc[t] \in {"authenticate", "stalled", "offer"}
  /\ ~ Cancelled =>
       /\ Distinct
       /\ \A k \in Conns : status[k] = "open" <=> IsHeld(k)

\* Every step keeps the types: a loop offers a connection, and only into a place
\* that is free.
LEMMA ListenerTypeStep ==
  ListenerTypeOK /\ HeldInv /\ [ListenerNext]_listenerVars => ListenerTypeOK'
<1> SUFFICES ASSUME ListenerTypeOK, HeldInv, [ListenerNext]_listenerVars
             PROVE  ListenerTypeOK'
  OBVIOUS
<1> USE ListenerAssumption DEF Conns
<1>c. \A S : Closing(S) \in [Conns -> {"new", "backlog", "open", "closed"}]
  BY DEF Closing, ListenerTypeOK
<1>1. ASSUME NEW t \in Loops, NEW k \in Of(t), Arrive(t, k)
      PROVE  ListenerTypeOK'
  BY <1>1, Zenon DEF Arrive, ListenerTypeOK
<1>2. ASSUME NEW t \in Loops, NEW k \in Of(t), AcceptRaw(t, k)
      PROVE  ListenerTypeOK'
  BY <1>2 DEF AcceptRaw, ListenerTypeOK, Of
<1>3. ASSUME NEW t \in Loops, AcceptCancelled(t) \/ Stall(t) \/ AuthOK(t)
      PROVE  ListenerTypeOK'
  BY <1>3 DEF AcceptCancelled, Stall, AuthOK, ListenerTypeOK
<1>4. ASSUME NEW t \in Loops, AuthFail(t) \/ OfferCancelled(t)
      PROVE  ListenerTypeOK'
  BY <1>4, <1>c DEF AuthFail, OfferCancelled, ListenerTypeOK
<1>5. ASSUME NEW t \in Loops, OfferSend(t)
      PROVE  ListenerTypeOK'
  <2>1. cur[t] \in Conns
    BY <1>5 DEF OfferSend, HeldInv, ListenerTypeOK
  <2>2. connCh \in Seq(Conns) /\ Len(connCh) \in Nat /\ Len(connCh) < Cap /\ Cap \in Nat
    BY <1>5 DEF OfferSend, ListenerTypeOK
  <2>3. Append(connCh, cur[t]) \in Seq(Conns) /\ Len(Append(connCh, cur[t])) <= Cap
    BY <2>1, <2>2
  <2> QED
    BY <1>5, <2>3 DEF OfferSend, ListenerTypeOK
<1>s. ASSUME connCh # <<>>
      PROVE  /\ Head(connCh) \in Conns
             /\ Tail(connCh) \in Seq(Conns) /\ Len(Tail(connCh)) <= Cap
  <2>1. connCh \in Seq(Conns) /\ Len(connCh) \in Nat /\ Len(connCh) <= Cap /\ Cap \in Nat
    BY DEF ListenerTypeOK
  <2> QED
    BY <1>s, <2>1
<1>6. CASE AcceptReturns
  BY <1>6, <1>s DEF AcceptReturns, ListenerTypeOK
<1>7. CASE AcceptFails \/ CancelSession \/ LoopBlocks
  BY <1>7, Zenon DEF AcceptFails, CancelSession, LoopBlocks, ListenerTypeOK
<1>8. CASE HandleNewConn \/ DropConn \/ SessionExit \/ CloseTcp \/ CloseQuic
  BY <1>8, <1>c DEF HandleNewConn, DropConn, SessionExit, CloseTcp, CloseQuic,
     ListenerTypeOK
<1>9. CASE Drain
  <2>1. CASE connCh # <<>>
    <3>1. /\ status' = Closing({Head(connCh)}) /\ connCh' = Tail(connCh)
          /\ UNCHANGED <<stage, pc, cur, acceptCh, sctx, conn>>
      BY <1>9, <2>1 DEF Drain
    <3>2. status' \in [Conns -> {"new", "backlog", "open", "closed"}]
      BY <1>c, <1>s, <2>1, <3>1, Zenon
    <3> QED
      BY <1>s, <2>1, <3>1, <3>2, Zenon DEF ListenerTypeOK
  <2>2. CASE connCh = <<>>
    BY <1>9, <2>2, Zenon DEF Drain, ListenerTypeOK
  <2> QED
    BY <2>1, <2>2
<1>10. CASE Stopped \/ UNCHANGED listenerVars
  BY <1>10, Zenon DEF Stopped, listenerVars, ListenerTypeOK
<1> QED
  BY <1>1, <1>2, <1>3, <1>4, <1>5, <1>6, <1>7, <1>8, <1>9, <1>10
     DEF ListenerNext, Loop, Close

\* An accept loop holds a connection from the time it is accepted until it is
\* offered or closed.
LEMMA LoopHolds ==
  ASSUME ListenerTypeOK, HeldInv, [ListenerNext]_listenerVars
  PROVE  \A t \in Loops : cur'[t] # None <=> pc'[t] \in {"authenticate", "stalled", "offer"}
<1> USE ListenerAssumption DEF HeldInv, ListenerTypeOK, Conns
<1>1. ASSUME NEW t \in Loops, NEW k \in Of(t), Arrive(t, k) \/ AcceptRaw(t, k)
      PROVE  \A u \in Loops : cur'[u] # None <=> pc'[u] \in {"authenticate", "stalled", "offer"}
  BY <1>1 DEF Arrive, AcceptRaw, Of
<1>2. ASSUME NEW t \in Loops,
             \/ AcceptCancelled(t) \/ Stall(t) \/ AuthOK(t) \/ AuthFail(t)
             \/ OfferSend(t) \/ OfferCancelled(t)
      PROVE  \A u \in Loops : cur'[u] # None <=> pc'[u] \in {"authenticate", "stalled", "offer"}
  BY <1>2 DEF AcceptCancelled, Stall, Authenticating, AuthOK, AuthFail, OfferSend,
     OfferCancelled
<1>3. CASE UNCHANGED <<pc, cur>>
  BY <1>3
<1> QED
  BY <1>1, <1>2, <1>3, Zenon DEF ListenerNext, Loop, AcceptReturns, AcceptFails, HandleNewConn,
     DropConn, LoopBlocks, CancelSession, SessionExit, Close, CloseTcp, CloseQuic, Drain, Stopped,
     listenerVars

\* Until the session exits, a connection is open as long as somebody holds it, and
\* nobody else does.
LEMMA HeldStep ==
  ASSUME ListenerTypeOK, HeldInv, [ListenerNext]_listenerVars, ~ Cancelled'
  PROVE  /\ Distinct'
         /\ \A k \in Conns : status'[k] = "open" <=> IsHeld(k)'
<1> DEFINE Goal == Distinct' /\ \A k \in Conns : status'[k] = "open" <=> IsHeld(k)'
<1>s. ~ Cancelled
  BY Zenon DEF Cancelled, ListenerNext, Loop, Arrive, AcceptRaw, AcceptCancelled, Stall,
     AuthOK, AuthFail, OfferSend, OfferCancelled, AcceptReturns, AcceptFails,
     HandleNewConn, DropConn, LoopBlocks, CancelSession, SessionExit, Close, CloseTcp,
     CloseQuic, Drain, Stopped, listenerVars
<1>h. /\ Distinct
      /\ \A k \in Conns : status[k] = "open" <=> IsHeld(k)
      /\ \A t \in Loops : cur[t] # None <=> pc[t] \in {"authenticate", "stalled", "offer"}
  BY <1>s DEF HeldInv
<1>t. /\ status \in [Conns -> {"new", "backlog", "open", "closed"}]
      /\ cur \in [Loops -> Conns \cup {None}]
      /\ connCh \in Seq(Conns)
      /\ \A i \in DOMAIN connCh : connCh[i] \in Conns
      /\ acceptCh \in Conns \cup {None, "err"} /\ conn \in Conns \cup {None}
      /\ None \notin Conns /\ "err" \notin Conns
      /\ \A t \in Loops : Of(t) \subseteq Conns
  <2>1. connCh \in Seq(Conns)
    BY DEF ListenerTypeOK
  <2>2. \A i \in DOMAIN connCh : connCh[i] \in Conns
    BY <2>1
  <2>3. \A t \in Loops : Of(t) \subseteq Conns
    BY DEF Conns, Of
  <2>4. None \notin Conns /\ "err" \notin Conns
    BY ListenerAssumption DEF Conns
  <2> QED
    BY <2>1, <2>2, <2>3, <2>4 DEF ListenerTypeOK
<1>c. \A S : \A k \in Conns : Closing(S)[k] = "open" <=> status[k] = "open" /\ k \notin S
  BY <1>t, Zenon DEF Closing
<1>1. ASSUME NEW t \in Loops, NEW k \in Of(t), Arrive(t, k)
      PROVE  Goal
  BY <1>1, <1>h, <1>t DEF Arrive, Distinct, IsHeld
<1>2. ASSUME NEW t \in Loops, NEW k \in Of(t), AcceptRaw(t, k)
      PROVE  Goal
  <2>1. k \in Conns /\ ~ IsHeld(k) /\ cur[t] = None /\ cur' = [cur EXCEPT ![t] = k]
    BY <1>2, <1>h, <1>t, Zenon DEF AcceptRaw
  <2>2. Distinct'
    BY <1>2, <1>h, <1>t, <2>1 DEF AcceptRaw, Distinct, IsHeld
  <2>3. ASSUME NEW j \in Conns
        PROVE  status'[j] = "open" <=> IsHeld(j)'
    BY <1>2, <1>h, <1>t, <2>1, SMTT(30) DEF AcceptRaw, IsHeld
  <2> QED
    BY <2>2, <2>3
<1>3. ASSUME NEW t \in Loops, AcceptCancelled(t) \/ Stall(t) \/ AuthOK(t)
      PROVE  Goal
  <2>1. UNCHANGED <<status, cur, connCh, acceptCh, conn>>
    BY <1>3 DEF AcceptCancelled, Stall, AuthOK
  <2> QED
    BY <2>1, <1>h DEF Distinct, IsHeld
<1>4. ASSUME NEW t \in Loops, AuthFail(t) \/ OfferCancelled(t)
      PROVE  Goal
  <2>1. /\ cur[t] \in Conns /\ cur' = [cur EXCEPT ![t] = None] /\ status' = Closing({cur[t]})
        /\ UNCHANGED <<connCh, acceptCh, conn>>
    BY <1>4, <1>h, <1>t, SMTT(30) DEF Authenticating, AuthFail, OfferCancelled
  <2>2. Distinct'
    BY <1>h, <1>t, <2>1 DEF Distinct
  <2>3. ASSUME NEW j \in Conns
        PROVE  status'[j] = "open" <=> IsHeld(j)'
    <3>1. status'[j] = "open" <=> status[j] = "open" /\ j # cur[t]
      BY <1>c, <2>1
    <3>2. IsHeld(j)' <=> IsHeld(j) /\ j # cur[t]
      BY <1>h, <1>t, <2>1 DEF IsHeld, Distinct
    <3> QED
      BY <1>h, <3>1, <3>2, SMTT(30)
  <2> QED
    BY <2>2, <2>3, SMTT(30)
<1>5. ASSUME NEW t \in Loops, OfferSend(t)
      PROVE  Goal
  <2>1. /\ cur[t] \in Conns /\ cur' = [cur EXCEPT ![t] = None]
        /\ connCh' = Append(connCh, cur[t])
        /\ UNCHANGED <<status, acceptCh, conn>>
    BY <1>5, <1>h, <1>t DEF OfferSend
  <2>2. /\ Len(connCh) \in Nat
        /\ DOMAIN connCh = 1 .. Len(connCh) /\ DOMAIN connCh' = 1 .. Len(connCh) + 1
        /\ \A i \in 1 .. Len(connCh) : connCh'[i] = connCh[i]
        /\ connCh'[Len(connCh) + 1] = cur[t]
    BY <1>t, <2>1
  <2>3. Distinct'
    BY <1>h, <1>t, <2>1, <2>2 DEF Distinct
  <2>4. ASSUME NEW j \in Conns
        PROVE  status'[j] = "open" <=> IsHeld(j)'
    <3>1. (\E i \in DOMAIN connCh' : connCh'[i] = j)
            <=> (\E i \in DOMAIN connCh : connCh[i] = j) \/ j = cur[t]
      BY <2>2
    <3>2. (\E u \in Loops : cur[u] = j) <=> (\E u \in Loops : cur'[u] = j) \/ j = cur[t]
      BY <1>t, <2>1
    <3>3. status'[j] = "open" <=> IsHeld(j)
      BY <1>h, <2>1
    <3> QED
      BY <2>1, <3>1, <3>2, <3>3, Zenon DEF IsHeld
  <2> QED
    BY <2>3, <2>4, SMTT(30)
<1>6. CASE AcceptReturns
  <2>1. /\ connCh # <<>> /\ connCh' = Tail(connCh) /\ acceptCh' = connCh[1] /\ acceptCh = None
        /\ UNCHANGED <<status, cur, conn>>
    BY <1>6, <1>t DEF AcceptReturns
  <2>2. /\ Len(connCh) \in Nat \ {0}
        /\ DOMAIN connCh = 1 .. Len(connCh) /\ DOMAIN connCh' = 1 .. Len(connCh) - 1
        /\ \A i \in 1 .. Len(connCh) - 1 : connCh'[i] = connCh[i + 1]
    BY <1>t, <2>1, SMTT(30)
  <2>3. Distinct'
    BY <1>h, <1>t, <2>1, <2>2, SMTT(30) DEF Distinct
  <2>4. ASSUME NEW j \in Conns
        PROVE  status'[j] = "open" <=> IsHeld(j)'
    <3>1. (\E i \in DOMAIN connCh : connCh[i] = j)
            <=> (\E i \in DOMAIN connCh' : connCh'[i] = j) \/ acceptCh' = j
      <4>1. ASSUME NEW i \in DOMAIN connCh, connCh[i] = j, i # 1
            PROVE  i - 1 \in DOMAIN connCh' /\ connCh'[i - 1] = j
        BY <4>1, <2>2
      <4>2. ASSUME NEW i \in DOMAIN connCh', connCh'[i] = j
            PROVE  i + 1 \in DOMAIN connCh /\ connCh[i + 1] = j
        BY <4>2, <2>2, SMTT(30)
      <4>3. 1 \in DOMAIN connCh
        BY <2>2, SMTT(30)
      <4> QED
        BY <2>1, <4>1, <4>2, <4>3, Zenon
    <3> QED
      BY <1>h, <1>t, <2>1, <3>1 DEF IsHeld
  <2> QED
    BY <2>3, <2>4
<1>7. CASE AcceptFails \/ CancelSession \/ LoopBlocks
  BY <1>7, <1>h, <1>t, SMTT(30) DEF AcceptFails, CancelSession, LoopBlocks, Distinct, IsHeld
<1>8. CASE HandleNewConn
  <2>1. /\ acceptCh \in Conns /\ acceptCh' = None
        /\ \/ conn' = acceptCh /\ status' = Closing({conn})
           \/ conn' = None /\ status' = Closing({conn, acceptCh})
        /\ UNCHANGED <<cur, connCh>>
    BY <1>8, Zenon DEF HandleNewConn
  <2>2. Distinct'
    BY <1>h, <1>t, <2>1 DEF Distinct
  <2>3. ASSUME NEW j \in Conns
        PROVE  status'[j] = "open" <=> IsHeld(j)'
    BY <1>h, <1>t, <1>c, <2>1 DEF IsHeld, Distinct
  <2> QED
    BY <2>2, <2>3
<1>9. CASE DropConn
  <2>1. /\ conn \in Conns /\ conn' = None /\ status' = Closing({conn})
        /\ UNCHANGED <<cur, connCh, acceptCh>>
    BY <1>9, <1>t, Zenon DEF DropConn
  <2>2. Distinct'
    BY <1>h, <1>t, <2>1, Zenon DEF Distinct
  <2>3. ASSUME NEW j \in Conns
        PROVE  status'[j] = "open" <=> IsHeld(j)'
    BY <1>h, <1>t, <1>c, <2>1, SMTT(30) DEF IsHeld, Distinct
  <2> QED
    BY <2>2, <2>3
<1>10. CASE Stopped \/ UNCHANGED listenerVars
  <2>1. UNCHANGED <<status, cur, connCh, acceptCh, conn>>
    BY <1>10 DEF Stopped, listenerVars
  <2> QED
    BY <2>1, <1>h DEF Distinct, IsHeld
<1>11. ~ (SessionExit \/ Close)
  BY <1>s DEF SessionExit, Close, CloseTcp, CloseQuic, Drain, Cancelled
<1> QED
  BY <1>1, <1>2, <1>3, <1>4, <1>5, <1>6, <1>7, <1>8, <1>9, <1>10, <1>11, Zenon
     DEF ListenerNext, Loop

\* An open connection has exactly one holder and a closed one none, for any number
\* of connections and any capacity of connCh.
THEOREM ConnectionsHeldOnce == ListenerSpec => []OneHolder
<1>1. ListenerInit => ListenerTypeOK /\ HeldInv
  <2> SUFFICES ASSUME ListenerInit PROVE ListenerTypeOK /\ HeldInv
    OBVIOUS
  <2>1. ListenerTypeOK
    <3>1. connCh \in Seq(Conns) /\ Len(connCh) <= Cap
      BY ListenerAssumption DEF ListenerInit
    <3>2. /\ status \in [Conns -> {"new", "backlog", "open", "closed"}]
          /\ pc \in [Loops -> {"accept", "authenticate", "stalled", "offer", "exited"}]
          /\ cur \in [Loops -> Conns \cup {None}]
      BY DEF ListenerInit
    <3> QED
      BY <3>1, <3>2, Zenon DEF ListenerInit, ListenerTypeOK
  <2>2. HeldInv
    BY ListenerAssumption, SMTT(30) DEF ListenerInit, HeldInv, Distinct, IsHeld, Conns
  <2> QED
    BY <2>1, <2>2
<1>2. ListenerTypeOK /\ HeldInv /\ [ListenerNext]_listenerVars => ListenerTypeOK' /\ HeldInv'
  BY ListenerTypeStep, LoopHolds, HeldStep DEF HeldInv
<1>3. ListenerTypeOK /\ HeldInv => OneHolder
  <2> SUFFICES ASSUME ListenerTypeOK, HeldInv, ~ Cancelled, NEW k \in Conns
               PROVE  /\ status[k] = "open" => \E h \in Holders(k) : Holders(k) = {h}
                      /\ status[k] # "open" => Holders(k) = {}
    BY SMTT(30) DEF OneHolder
  <2>1. Distinct /\ (status[k] = "open" <=> IsHeld(k)) /\ k # None
    BY ListenerAssumption DEF HeldInv, Conns
  <2>2. \A h : h \in Holders(k) <=>
          \/ \E t \in Loops : cur[t] = k /\ h = <<"loop", t>>
          \/ \E i \in DOMAIN connCh : connCh[i] = k /\ h = <<"connCh", i>>
          \/ acceptCh = k /\ h = <<"acceptCh", 0>>
          \/ conn = k /\ h = <<"session", 0>>
    BY DEF Holders
  <2>3. ~ IsHeld(k) => Holders(k) = {}
    BY <2>2 DEF IsHeld
  <2>4. IsHeld(k) => \E h : h \in Holders(k)
    BY <2>2, Zenon DEF IsHeld
  <2>5. \A g, h \in Holders(k) : g = h
    BY <2>1, <2>2 DEF Distinct
  <2> QED
    BY <2>1, <2>3, <2>4, <2>5
<1> QED
  BY <1>1, <1>2, <1>3, PTL DEF ListenerSpec

-----------------------------------------------------------------------------
(* Buffers and the handshake.                                              *)

\* Sending a message to a stream, and reading one from it, keep its type.
LEMMA QueueType ==
  ASSUME NEW q \in [Streams -> Seq(Messages)], tcp \in BOOLEAN
  PROVE  /\ \A m \in Messages : Send(q, m) \in [Streams -> Seq(Messages)]
         /\ \A t \in Streams : q[t] # <<>> =>
              /\ [q EXCEPT ![t] = Tail(@)] \in [Streams -> Seq(Messages)]
              /\ Head(q[t]) \in Messages
<1>1. \A m \in Messages : Lane(StreamOf(m)) \in Streams
  BY DEF Lane, StreamOf, Streams, Messages
<1>2. \A m \in Messages : Send(q, m) \in [Streams -> Seq(Messages)]
  BY <1>1 DEF Send
<1>3. ASSUME NEW t \in Streams, q[t] # <<>>
      PROVE  /\ [q EXCEPT ![t] = Tail(@)] \in [Streams -> Seq(Messages)]
             /\ Head(q[t]) \in Messages
  <2>1. q[t] \in Seq(Messages)
    OBVIOUS
  <2>2. Tail(q[t]) \in Seq(Messages) /\ Head(q[t]) \in Messages
    BY <1>3, <2>1
  <2> QED
    BY <2>2
<1> QED
  BY <1>2, <1>3

\* Every step keeps the types, and so the bounds of the channels and the PTY.
LEMMA TypeStep == TypeOK /\ [Next]_vars => TypeOK'
<1> SUFFICES ASSUME TypeOK, [Next]_vars PROVE TypeOK'
  OBVIOUS
<1> USE FlowAssumption
<1>a. /\ tcp \in BOOLEAN /\ up \in [Streams -> Seq(Messages)] /\ down \in [Streams -> Seq(Messages)]
  BY DEF TypeOK
<1>b. "Data" \in Messages /\ "TerminalInfo" \in Messages /\ "Heartbeat" \in Messages
  BY SMTT(30) DEF Messages
<1>c. Lane("control") \in Streams /\ "data" \in Streams /\ \A m : StreamOf(m) \in Streams
  BY SMTT(30) DEF Lane, Streams, StreamOf
<1>d. /\ \A m \in Messages : Send(up, m) \in [Streams -> Seq(Messages)]
      /\ \A m \in Messages : Send(down, m) \in [Streams -> Seq(Messages)]
      /\ \A t \in Streams : up[t] # <<>> => [up EXCEPT ![t] = Tail(@)] \in [Streams -> Seq(Messages)]
      /\ \A t \in Streams : down[t] # <<>> =>
           [down EXCEPT ![t] = Tail(@)] \in [Streams -> Seq(Messages)]
  BY <1>a, QueueType, ZenonT(60)
<1>1. CASE ClientReplay \/ ClientInfo \/ ClientWrite
  <2>1. up' \in [Streams -> Seq(Messages)]
    BY <1>1, <1>b, <1>d, ZenonT(60) DEF ClientReplay, ClientInfo, ClientWrite
  <2> QED
    BY <1>1, <2>1, SMTT(60) DEF ClientReplay, ClientInfo, ClientWrite, TypeOK, sVars,
       ptyVars
<1>2. CASE ClientRefused \/ ClientStdin \/ ClientPrints
  BY <1>2, SMTT(60) DEF ClientRefused, ClientStdin, ClientPrints, TypeOK, netVars, sVars,
     ptyVars
<1>l. CASE ClientLost
  <2>1. cch' \in [Streams -> 0 .. ChanCap]
    BY <1>l DEF ClientLost
  <2> QED
    BY <1>l, <2>1, ZenonT(60) DEF ClientLost, TypeOK, sVars, ptyVars
<1>3. CASE \E t \in Streams : ClientReads(t) \/ ClientTakes(t)
  <2>1. PICK t \in Streams : ClientReads(t) \/ ClientTakes(t)
    BY <1>3, Zenon
  <2>2. CASE ClientReads(t)
    <3>1. down' \in [Streams -> Seq(Messages)]
      BY <1>d, <2>2, ZenonT(60) DEF ClientReads
    <3>2. cch' \in [Streams -> 0 .. ChanCap]
      <4>1. PICK u \in Streams : cch[u] < ChanCap /\ cch' = [cch EXCEPT ![u] = @ + 1]
        BY <1>c, <2>2, ZenonT(60) DEF ClientReads
      <4> QED
        BY <4>1, SMTT(60) DEF TypeOK
    <3> QED
      BY <2>2, <3>1, <3>2, SMTT(60) DEF ClientReads, TypeOK, sVars, ptyVars
  <2>3. CASE ClientTakes(t)
    <3>1. cch' \in [Streams -> 0 .. ChanCap]
      BY <2>3, SMTT(60) DEF ClientTakes, TypeOK
    <3> QED
      BY <2>3, <3>1, SMTT(60) DEF ClientTakes, TypeOK, netVars, sVars, ptyVars
  <2> QED
    BY <2>1, <2>2, <2>3, SMTT(30)
<1>4. CASE SessionInfo \/ SessionReads
  <2>1. up' \in [Streams -> Seq(Messages)]
    BY <1>4, <1>c, <1>d, ZenonT(60) DEF SessionInfo, SessionReads
  <2>2. CASE SessionInfo
    BY <2>1, <2>2, ZenonT(60) DEF SessionInfo, TypeOK, cVars, ptyVars
  <2>3. CASE SessionReads
    BY <2>1, <2>3, SMTT(60) DEF SessionReads, TypeOK, cVars, ptyVars
  <2> QED
    BY <1>4, <2>2, <2>3
<1>5. CASE SessionInfoDeadline \/ SessionDrops
  BY <1>5, ZenonT(60) DEF SessionInfoDeadline, SessionDrops, TypeOK, cVars, ptyVars
<1>6. CASE SessionReplay
  <2>1. down' \in [Streams -> Seq(Messages)] /\ sLeft' \in 0 .. MaxReplay
    <3>1. down' = Send(down, "Data") \/ down' = down
      BY <1>6, ZenonT(60) DEF SessionReplay
    <3>2. sLeft' \in 0 .. MaxReplay
      BY <1>6, SMTT(60) DEF SessionReplay, TypeOK
    <3> QED
      BY <1>a, <1>b, <1>d, <3>1, <3>2, ZenonT(60)
  <2> QED
    BY <1>6, <2>1, SMTT(60) DEF SessionReplay, TypeOK, cVars, ptyVars
<1>7. CASE SessionWrite \/ HeartbeatWrite
  <2>1. down' \in [Streams -> Seq(Messages)]
    BY <1>7, <1>b, <1>d, ZenonT(60) DEF SessionWrite, HeartbeatWrite
  <2> QED
    BY <1>7, <2>1, SMTT(60) DEF SessionWrite, HeartbeatWrite, TypeOK, cVars, ptyVars
<1>8. CASE PtyData \/ Heartbeat \/ StreamEvent \/ PtyWrite
  <2>1. CASE PtyData
    BY <2>1, SMTT(60) DEF PtyData, TypeOK, netVars, cVars
  <2>2. CASE Heartbeat
    BY <2>2, SMTT(60) DEF Heartbeat, TypeOK, netVars, cVars, ptyVars
  <2>3. CASE StreamEvent
    BY <2>3, SMTT(60) DEF StreamEvent, TypeOK, netVars, cVars, ptyVars
  <2>4. CASE PtyWrite
    BY <2>4, SMTT(60) DEF PtyWrite, TypeOK, netVars, cVars
  <2> QED
    BY <1>8, <2>1, <2>2, <2>3, <2>4, Zenon
<1>9. CASE ShellReads \/ ShellSpeaks \/ ShellWrites \/ PtyRead \/ PtyReadSend
  <2>1. CASE ShellReads \/ ShellSpeaks
    BY <2>1, SMTT(60) DEF ShellReads, ShellSpeaks, TypeOK, netVars, cVars, sVars
  <2>2. CASE ShellWrites
    BY <2>2, SMTT(60) DEF ShellWrites, TypeOK, netVars, cVars, sVars
  <2>3. CASE PtyRead \/ PtyReadSend
    <3>1. /\ rd' \in BOOLEAN
          /\ UNCHANGED <<netVars, cVars, sVars, shell, ttyIn>>
      BY <2>3, ZenonT(60) DEF PtyRead, PtyReadSend
    <3>2. ttyOut' \in 0 .. TtyOut /\ ptyCh' \in 0 .. PtyCap
      BY <2>3, SMTT(60) DEF PtyRead, PtyReadSend, TypeOK
    <3> QED
      BY <3>1, <3>2, ZenonT(60) DEF TypeOK, netVars, cVars, sVars
  <2> QED
    BY <1>9, <2>1, <2>2, <2>3, Zenon
<1>10. CASE UNCHANGED vars
  BY <1>10, SMTT(60) DEF vars, netVars, cVars, sVars, ptyVars, TypeOK
<1> QED
  BY <1>1, <1>2, <1>3, <1>4, <1>5, <1>6, <1>7, <1>8, <1>9, <1>10, <1>l, ZenonT(60) DEF Next

\* Types and bounds hold for every choice of the capacities: no channel and no
\* PTY buffer ever holds more than it can.
THEOREM FlowTypeCorrect == Spec => []TypeOK
<1>1. Init => TypeOK
  <2> SUFFICES ASSUME Init PROVE TypeOK
    OBVIOUS
  <2>1. up \in [Streams -> Seq(Messages)] /\ down \in [Streams -> Seq(Messages)]
    BY SMTT(30) DEF Init
  <2>2. cch \in [Streams -> 0 .. ChanCap]
    BY FlowAssumption DEF Init
  <2>3. /\ streamCh \in 0 .. StreamCap /\ ttyIn \in 0 .. TtyIn /\ ttyOut \in 0 .. TtyOut
        /\ ptyCh \in 0 .. PtyCap
    BY FlowAssumption DEF Init
  <2>4. missed \in 0 .. MaxReplay /\ cLeft \in 0 .. missed /\ sLeft \in 0 .. MaxReplay
    BY FlowAssumption, SMTT(60) DEF Init
  <2> QED
    BY <2>1, <2>2, <2>3, <2>4, Zenon DEF Init, TypeOK
<1> QED
  BY <1>1, TypeStep, PTL DEF Spec

-----------------------------------------------------------------------------
(* The handshake.                                                          *)

\* While the session waits for TerminalInfo nothing reads the replay: over QUIC all
\* that was written of it is on the data stream, and the control stream holds
\* nothing but TerminalInfo; over TCP a client without a replay has TerminalInfo
\* in front of whatever was typed since.
ReplayWaits ==
  /\ ~ tcp => \A i \in 1 .. Len(up["control"]) : up["control"][i] = "TerminalInfo"
  /\ spc = "info" =>
       /\ open
       /\ ~ tcp /\ cpc = "replay" => Len(up["data"]) = missed - cLeft
       /\ tcp /\ missed = 0 =>
            /\ up["data"] # <<>> => Head(up["data"]) = "TerminalInfo"
            /\ up["data"] = <<>> => cpc \in {"replay", "refused"}

HandshakeInv == ReplayWaits /\ (~ open => lost \/ ~ Fits)

\* What appending does to a queue: one more at the end, the rest as it was.
LEMMA AppendFacts ==
  ASSUME NEW q \in Seq(Messages), NEW m \in Messages
  PROVE  /\ Len(q) \in Nat /\ Len(Append(q, m)) = Len(q) + 1 /\ Append(q, m) # <<>>
         /\ \A i \in 1 .. Len(q) : Append(q, m)[i] = q[i]
         /\ Append(q, m)[Len(q) + 1] = m
         /\ Head(Append(q, m)) = IF q = <<>> THEN m ELSE Head(q)
<1>1. /\ Len(q) \in Nat /\ Len(Append(q, m)) = Len(q) + 1
      /\ \A i \in 1 .. Len(q) : Append(q, m)[i] = q[i]
      /\ Append(q, m)[Len(q) + 1] = m
  OBVIOUS
<1>2. Append(q, m) # <<>>
  <2>1. Len(Append(q, m)) # 0 /\ Len(<<>>) = 0
    BY <1>1
  <2> QED
    BY <2>1, Zenon
<1>3. Head(Append(q, m)) = Append(q, m)[1]
  OBVIOUS
<1>4. CASE q = <<>>
  <2>1. Len(q) + 1 = 1
    BY <1>4
  <2> QED
    BY <1>1, <1>2, <1>3, <1>4, <2>1, Zenon
<1>5. CASE q # <<>>
  <2>1. 1 \in 1 .. Len(q) /\ Head(q) = q[1]
    BY <1>5
  <2> QED
    BY <1>1, <1>2, <1>3, <1>5, <2>1, Zenon
<1> QED
  BY <1>4, <1>5, Zenon

\* Every step preserves the invariant of the handshake.
LEMMA HandshakeStep == TypeOK /\ HandshakeInv /\ [Next]_vars => HandshakeInv'
<1> SUFFICES ASSUME TypeOK, HandshakeInv, [Next]_vars PROVE HandshakeInv'
  OBVIOUS
<1> USE FlowAssumption
<1>a. /\ tcp \in BOOLEAN /\ up \in [Streams -> Seq(Messages)]
      /\ missed \in Nat /\ cLeft \in Nat /\ cLeft <= missed
      /\ up["data"] \in Seq(Messages) /\ up["control"] \in Seq(Messages)
      /\ "data" \in Streams /\ "control" \in Streams /\ "data" # "control"
      /\ "Data" \in Messages /\ "TerminalInfo" \in Messages
  BY DEF TypeOK, Streams, Messages
<1>f. UNCHANGED <<tcp, missed>> => (Fits' <=> Fits)
  BY DEF Fits
\* A step of which the handshake sees nothing.
<1>b. ASSUME UNCHANGED <<tcp, open, lost, missed, cLeft, up>>, cpc' = cpc \/ cpc' = "refused",
             spc' = "info" <=> spc = "info"
      PROVE  HandshakeInv'
  BY <1>b, <1>f, Zenon DEF HandshakeInv, ReplayWaits
\* A step of the session after the handshake.
<1>c. ASSUME spc # "info", spc' # "info", UNCHANGED <<tcp, open, lost, missed>>,
             up'["control"] = up["control"]
      PROVE  HandshakeInv'
  BY <1>c, <1>f, Zenon DEF HandshakeInv, ReplayWaits
<1>q. /\ Send(up, "Data")["data"] = Append(up["data"], "Data")
      /\ ~ tcp => Send(up, "Data")["control"] = up["control"]
      /\ tcp => Send(up, "TerminalInfo")["data"] = Append(up["data"], "TerminalInfo")
      /\ ~ tcp => /\ Send(up, "TerminalInfo")["data"] = up["data"]
                  /\ Send(up, "TerminalInfo")["control"] = Append(up["control"], "TerminalInfo")
  BY <1>a, ZenonT(60) DEF Send, Lane, StreamOf
<1>d. /\ Len(Append(up["data"], "Data")) = Len(up["data"]) + 1
      /\ Append(up["data"], "Data") # <<>> /\ Append(up["data"], "TerminalInfo") # <<>>
      /\ up["data"] # <<>> => Head(Append(up["data"], "Data")) = Head(up["data"])
      /\ Head(Append(up["data"], "TerminalInfo")) \in {"TerminalInfo", Head(up["data"])}
      /\ up["data"] = <<>> => Head(Append(up["data"], "TerminalInfo")) = "TerminalInfo"
  BY <1>a, AppendFacts, ZenonT(60)
<1>1. CASE ClientReplay
  <2>1. /\ cpc = "replay" /\ cpc' = "replay" /\ cLeft > 0 /\ cLeft' = cLeft - 1
        /\ UNCHANGED <<tcp, open, lost, missed, spc>> /\ up' = Send(up, "Data")
    BY <1>1, Zenon DEF ClientReplay, sVars
  <2>2. /\ missed # 0
        /\ Len(up["data"]) = missed - cLeft => Len(up["data"]) + 1 = missed - (cLeft - 1)
    BY <1>a, <2>1
  <2> QED
    BY <1>f, <1>q, <1>d, <2>1, <2>2, ZenonT(60) DEF HandshakeInv, ReplayWaits
<1>2. CASE ClientInfo
  <2>1. /\ cpc' = "select" /\ up' = Send(up, "TerminalInfo")
        /\ UNCHANGED <<tcp, open, lost, missed, spc>>
    BY <1>2, Zenon DEF ClientInfo, sVars
  <2>2. ~ tcp => \A i \in 1 .. Len(up'["control"]) : up'["control"][i] = "TerminalInfo"
    <3>1. PICK q \in Seq(Messages) : q = up["control"]
      BY <1>a
    <3>2. ASSUME NEW i \in 1 .. Len(Append(q, "TerminalInfo")),
                 \A j \in 1 .. Len(q) : q[j] = "TerminalInfo"
          PROVE  Append(q, "TerminalInfo")[i] = "TerminalInfo"
      <4>1. /\ Len(q) \in Nat /\ Len(Append(q, "TerminalInfo")) = Len(q) + 1
            /\ \A j \in 1 .. Len(q) : Append(q, "TerminalInfo")[j] = q[j]
            /\ Append(q, "TerminalInfo")[Len(q) + 1] = "TerminalInfo"
        BY <1>a, AppendFacts, Zenon
      <4>2. i \in 1 .. Len(q) \/ i = Len(q) + 1
        BY <4>1
      <4>3. CASE i \in 1 .. Len(q)
        BY <3>2, <4>1, <4>3, Zenon
      <4>4. CASE i = Len(q) + 1
        BY <4>1, <4>4, Zenon
      <4> QED
        BY <4>2, <4>3, <4>4
    <3> QED
      BY <1>q, <2>1, <3>1, <3>2, Zenon DEF HandshakeInv, ReplayWaits
  <2> QED
    BY <1>f, <1>q, <1>d, <2>1, <2>2, ZenonT(60) DEF HandshakeInv, ReplayWaits
<1>3. CASE ClientWrite
  <2>1. /\ cpc = "write" /\ cpc' = "select" /\ up' = Send(up, "Data")
        /\ UNCHANGED <<tcp, open, lost, missed, spc>>
    BY <1>3, Zenon DEF ClientWrite, sVars
  <2> QED
    BY <1>f, <1>q, <1>d, <2>1, ZenonT(60) DEF HandshakeInv, ReplayWaits
<1>4. CASE ClientStdin \/ ClientPrints \/ \E t \in Streams : ClientTakes(t)
  <2>1. /\ cpc \notin {"replay", "refused"} /\ cpc' # "replay"
        /\ UNCHANGED <<tcp, open, lost, missed, up, spc>>
    BY <1>4, Zenon DEF ClientStdin, ClientPrints, ClientTakes, netVars, sVars
  <2> QED
    BY <1>f, <2>1, ZenonT(60) DEF HandshakeInv, ReplayWaits
<1>5. CASE ClientRefused \/ \E t \in Streams : ClientReads(t)
  BY <1>5, <1>b, ZenonT(60) DEF ClientRefused, ClientReads, netVars, sVars
<1>6. CASE ClientLost
  BY <1>6, <1>f, ZenonT(60) DEF ClientLost, sVars, HandshakeInv, ReplayWaits
<1>7. CASE SessionInfo
  <2>1. /\ spc = "info" /\ spc' # "info" /\ UNCHANGED <<tcp, lost, missed>>
        /\ up[Lane("control")] # <<>>
        /\ up' = [up EXCEPT ![Lane("control")] = Tail(@)]
        /\ ~ open' => Head(up[Lane("control")]) # "TerminalInfo"
    BY <1>7, Zenon DEF SessionInfo, HandshakeInv, ReplayWaits
  <2>2. CASE tcp
    <3>1. Head(up[Lane("control")]) # "TerminalInfo" => ~ Fits
      BY <2>1, <2>2, Zenon DEF Lane, Fits, HandshakeInv, ReplayWaits
    <3> QED
      BY <1>f, <2>1, <2>2, <3>1, Zenon DEF HandshakeInv, ReplayWaits
  <2>3. CASE ~ tcp
    <3>1. PICK q \in Seq(Messages) : q = up["control"]
      BY <1>a
    <3>2. /\ q # <<>> /\ up'["control"] = Tail(q)
          /\ \A i \in 1 .. Len(q) : q[i] = "TerminalInfo"
      BY <1>a, <2>1, <2>3, <3>1, Zenon DEF Lane, HandshakeInv, ReplayWaits
    <3>3. Head(q) = "TerminalInfo" /\ \A i \in 1 .. Len(Tail(q)) : Tail(q)[i] = "TerminalInfo"
      BY <3>2
    <3>4. open'
      BY <2>1, <2>3, <3>1, <3>3, Zenon DEF Lane
    <3> QED
      BY <2>1, <2>3, <3>2, <3>3, <3>4, Zenon DEF HandshakeInv, ReplayWaits
  <2> QED
    BY <2>2, <2>3
<1>8. CASE SessionInfoDeadline
  <2>1. /\ spc' # "info" /\ UNCHANGED <<tcp, lost, up, missed>>
        /\ spc = "info" /\ cpc = "replay" /\ cLeft > 0 /\ ~ (Len(up["data"]) < NetCap)
    BY <1>8, Zenon DEF SessionInfoDeadline, Room, Lane
  <2>2. ~ Fits
    <3>1. CASE tcp
      BY <1>a, <2>1, <3>1 DEF Fits
    <3>2. CASE ~ tcp
      <4>1. Len(up["data"]) = missed - cLeft
        BY <2>1, <3>2, Zenon DEF HandshakeInv, ReplayWaits
      <4> QED
        BY <1>a, <2>1, <3>2, <4>1 DEF Fits
    <3> QED
      BY <3>1, <3>2
  <2> QED
    BY <1>f, <2>1, <2>2, Zenon DEF HandshakeInv, ReplayWaits
<1>9. CASE SessionReads
  <2>1. up'["control"] = up["control"]
    BY <1>9, <1>a, Zenon DEF SessionReads
  <2> QED
    BY <1>9, <1>c, <2>1, Zenon DEF SessionReads
<1>10. CASE SessionReplay \/ SessionWrite \/ HeartbeatWrite
  BY <1>10, <1>c, Zenon DEF SessionReplay, SessionWrite, HeartbeatWrite
<1>11. CASE PtyData \/ Heartbeat \/ StreamEvent \/ PtyWrite
  BY <1>11, <1>c, Zenon DEF PtyData, Heartbeat, StreamEvent, PtyWrite, netVars
<1>12. CASE SessionDrops
  BY <1>12, <1>f, Zenon DEF SessionDrops, HandshakeInv, ReplayWaits
<1>13. CASE ShellReads \/ ShellSpeaks \/ ShellWrites \/ PtyRead \/ PtyReadSend
  BY <1>13, <1>b, Zenon DEF ShellReads, ShellSpeaks, ShellWrites, PtyRead, PtyReadSend, netVars,
     cVars, sVars
<1>14. CASE UNCHANGED vars
  BY <1>14, <1>b, Zenon DEF vars, netVars, cVars, sVars
<1> QED
  BY <1>1, <1>2, <1>3, <1>4, <1>5, <1>6, <1>7, <1>8, <1>9, <1>10, <1>11, <1>12, <1>13, <1>14,
     ZenonT(60) DEF Next

\* handleNewConn closes a client it can still reach only for a replay that does
\* not fit in front of TerminalInfo, whatever a stream or a channel can hold and
\* however long the replay is; and no buffer exceeds its capacity.
THEOREM HandshakeRefuses == Spec => []RefusedOnlyIf
<1>1. Init => HandshakeInv
  BY DEF Init, HandshakeInv, ReplayWaits, Streams
<1>2. TypeOK /\ HandshakeInv => RefusedOnlyIf
  BY DEF HandshakeInv, RefusedOnlyIf
<1> QED
  BY <1>1, <1>2, HandshakeStep, FlowTypeCorrect, PTL DEF Spec

=============================================================================
