-------------------------------- MODULE Mount --------------------------------
(***************************************************************************)
(* The SFTP plugin (internal/plugins/sftp): the phone is asked for the     *)
(* credentials of its SFTP server, sshfs mounts it, and an unmount kills   *)
(* sshfs and releases the mount point.                                     *)
(*                                                                         *)
(* One device.  Every mount command is a goroutine of the IPC server, and  *)
(* so is an unmount command; the end of the session unmounts too, as the   *)
(* stop of the daemon does, which is not modelled apart from the kill that *)
(* ends it.  The kernel's mount table outlives the daemon, what the plugin *)
(* tracks does not.  Abstracted: the two places a mount may be at, the     *)
(* process number of sshfs (found or not), volumes, the read-only mode and *)
(* the contents of credentials.                                            *)
(***************************************************************************)
EXTENDS Integers

CONSTANTS
    Mounters, \* mount commands that may run at once
    MaxMounts \* bound: mount commands in all

ASSUME MountAssumption == MaxMounts \in Nat

Releasers == {"ipc", "session"}
Nobody    == "nobody"

VARIABLES
    online,       \* the device has a session
    cached,       \* lastBody holds credentials of the device
    pendingAsk,   \* the command whose channel is in pending
    sftpAnswer,   \* what is in that channel
    mounter,      \* per command: where it is
    mountTable,   \* the kernel's mount: none, live, or dead (without sshfs)
    mountTracked, \* mountPoints has the device
    releaser,     \* per goroutine that unmounts: where it is
    mounts,       \* mount commands so far
    restarted     \* the daemon has been restarted (bound: once)

asks == <<cached, pendingAsk, sftpAnswer>>

mountVars ==
    <<online, asks, mounter, mountTable, mountTracked, releaser, mounts, restarted>>

MountInit ==
    /\ online = TRUE
    /\ cached = FALSE /\ pendingAsk = Nobody /\ sftpAnswer = "none"
    /\ mounter = [m \in Mounters |-> "idle"]
    /\ mountTable = "none" /\ mountTracked = FALSE
    /\ releaser = [u \in Releasers |-> "idle"]
    /\ mounts = 0 /\ restarted = FALSE

MounterAt(m, place) == mounter' = [mounter EXCEPT ![m] = place]
ReleaserAt(u, place) == releaser' = [releaser EXCEPT ![u] = place]

(* mountExists: the kernel's table has the mount point.                    *)
MountExists == mountTable # "none"

(* MountedPath: what is not tracked but mounted is adopted, for instance   *)
(* the mount of an earlier run of the daemon.                              *)
IsMounted  == mountTracked \/ MountExists
AdoptMount == mountTracked' = IsMounted

-----------------------------------------------------------------------------
(* Credentials.                                                            *)

(* requestCredentials: one request at a time; the cached credentials are   *)
(* dropped, and the phone is asked.                                        *)
RequestCredentials(m) ==
    /\ mounter[m] = "idle" /\ online /\ pendingAsk = Nobody
    /\ mounts < MaxMounts
    /\ mounts' = mounts + 1
    /\ cached' = FALSE
    /\ pendingAsk' = m
    /\ sftpAnswer' = "none"
    /\ MounterAt(m, "waiting")
    /\ UNCHANGED <<online, mountTable, mountTracked, releaser, restarted>>

(* Handle: credentials are kept, asked for or not, an error drops them;    *)
(* either is given to the request that waits, unless that has its answer.  *)
HandleSftp(what) ==
    /\ online
    /\ cached' = (what = "credentials")
    /\ sftpAnswer' = IF pendingAsk # Nobody /\ sftpAnswer = "none" THEN what
                 ELSE sftpAnswer
    /\ UNCHANGED <<online, pendingAsk, mounter, mountTable, mountTracked, releaser,
                   mounts, restarted>>

(* The answer is taken, or waiting for it has taken too long, or the       *)
(* request could not be sent.  A request that only lists the volumes ends  *)
(* here too.                                                               *)
CredentialsReturn(m) ==
    /\ mounter[m] = "waiting"
    /\ pendingAsk' = Nobody
    /\ sftpAnswer' = "none"
    /\ \/ sftpAnswer = "credentials" /\ MounterAt(m, "check")
       \/ MounterAt(m, "idle")
    /\ UNCHANGED <<online, cached, mountTable, mountTracked, releaser, mounts,
                   restarted>>

-----------------------------------------------------------------------------
(* mountWithBody.                                                          *)

(* A mount that exists is returned as it is.                               *)
ReuseMount(m) ==
    /\ mounter[m] = "check"
    /\ AdoptMount
    /\ MounterAt(m, IF IsMounted THEN "idle" ELSE "sshfs")
    /\ UNCHANGED <<online, asks, mountTable, releaser, mounts, restarted>>

(* sshfs runs; it fails on a live mount point.                             *)
RunSshfs(m) ==
    /\ mounter[m] = "sshfs"
    /\ \/ /\ ~MountExists
          /\ mountTable' = "live"
          /\ MounterAt(m, "made")
       \/ /\ MounterAt(m, "idle")
          /\ UNCHANGED mountTable
    /\ UNCHANGED <<online, asks, mountTracked, releaser, mounts, restarted>>

TrackMount(m) ==
    /\ mounter[m] = "made"
    /\ MounterAt(m, "idle")
    /\ mountTracked' = TRUE
    /\ UNCHANGED <<online, asks, mountTable, releaser, mounts, restarted>>

-----------------------------------------------------------------------------
(* Unmount.                                                                *)

(* OnDisconnect evicts the credentials when its unmount is over.           *)
LeaveMount(u) ==
    /\ ReleaserAt(u, "idle")
    /\ cached' = (cached /\ u # "session")
    /\ UNCHANGED <<pendingAsk, sftpAnswer>>

Proceed(u, place) == ReleaserAt(u, place) /\ UNCHANGED asks

(* The command, or OnDisconnect.                                           *)
BeginUnmount(u) ==
    /\ releaser[u] = "idle"
    /\ online' = (online /\ u # "session")
    /\ u = "session" => online
    /\ Proceed(u, "resolve")
    /\ UNCHANGED <<mounter, mountTable, mountTracked, mounts, restarted>>

ResolveMount_Cached(u) ==
    /\ releaser[u] = "resolve"
    /\ IF mountTracked THEN Proceed(u, "check") ELSE LeaveMount(u)
    /\ UNCHANGED <<online, mounter, mountTable, mountTracked, mounts, restarted>>

(* "not mounted", after what may be left of a mount is cleared away.       *)
ResolveMount(u) ==
    /\ releaser[u] = "resolve"
    /\ AdoptMount
    /\ IF IsMounted THEN Proceed(u, "check") ELSE LeaveMount(u)
    /\ UNCHANGED <<online, mounter, mountTable, mounts, restarted>>

(* Releasing a mount that has gone would fail for ever.                    *)
CheckKernel(u) ==
    /\ releaser[u] = "check"
    /\ Proceed(u, IF MountExists THEN "kill" ELSE "finish")
    /\ UNCHANGED <<online, mounter, mountTable, mountTracked, mounts, restarted>>

(* sshfs, if its process is found, ends and releases the mount, or is      *)
(* killed after three seconds and leaves it dead.                          *)
KillSshfs(u) ==
    /\ releaser[u] = "kill"
    /\ Proceed(u, "release")
    /\ mountTable' \in IF mountTable = "live" THEN {"live", "none", "dead"}
                       ELSE {mountTable}
    /\ UNCHANGED <<online, mounter, mountTracked, mounts, restarted>>

(* fusermount, lazily for a dead mount.                                    *)
ReleaseMount(u) ==
    /\ releaser[u] = "release"
    /\ MountExists
    /\ mountTable' = "none"
    /\ Proceed(u, "finish")
    /\ UNCHANGED <<online, mounter, mountTracked, mounts, restarted>>

(* It fails: the mount has gone meanwhile, or what is tracked is kept for  *)
(* another try.                                                            *)
ReleaseFails(u) ==
    /\ releaser[u] = "release"
    /\ IF MountExists THEN LeaveMount(u) ELSE Proceed(u, "finish")
    /\ UNCHANGED <<online, mounter, mountTable, mountTracked, mounts, restarted>>

FinishUnmount(u) ==
    /\ releaser[u] = "finish"
    /\ mountTracked' = FALSE
    /\ LeaveMount(u)
    /\ UNCHANGED <<online, mounter, mountTable, mounts, restarted>>

-----------------------------------------------------------------------------
(* What happens to it.                                                     *)

DeviceReturns ==
    /\ ~online /\ releaser["session"] = "idle"
    /\ online' = TRUE
    /\ UNCHANGED <<asks, mounter, mountTable, mountTracked, releaser, mounts,
                   restarted>>

(* sshfs dies, or somebody else releases the mount.                        *)
MountLost ==
    /\ MountExists
    /\ mountTable' \in {"dead", "none"}
    /\ UNCHANGED <<online, asks, mounter, mountTracked, releaser, mounts, restarted>>

(* The daemon ends, by a crash or when its stop has taken its time, and    *)
(* starts again; the mount stays.                                          *)
RestartDaemon ==
    /\ ~restarted
    /\ restarted' = TRUE
    /\ online' = FALSE
    /\ cached' = FALSE /\ pendingAsk' = Nobody /\ sftpAnswer' = "none"
    /\ mounter' = [m \in Mounters |-> "idle"]
    /\ mountTracked' = FALSE
    /\ releaser' = [u \in Releasers |-> "idle"]
    /\ UNCHANGED <<mountTable, mounts>>

-----------------------------------------------------------------------------
UnmountStep(u) ==
    \/ ResolveMount(u) \/ CheckKernel(u) \/ KillSshfs(u) \/ ReleaseMount(u)
    \/ ReleaseFails(u) \/ FinishUnmount(u)

MountStep(m) ==
    CredentialsReturn(m) \/ ReuseMount(m) \/ RunSshfs(m) \/ TrackMount(m)

MountNext ==
    \/ \E m \in Mounters : RequestCredentials(m) \/ MountStep(m)
    \/ \E what \in {"credentials", "error"} : HandleSftp(what)
    \/ \E u \in Releasers : BeginUnmount(u) \/ UnmountStep(u)
    \/ DeviceReturns \/ MountLost \/ RestartDaemon

MountSpec == MountInit /\ [][MountNext]_mountVars
-----------------------------------------------------------------------------
(* Every variable has the values the code can give it.                     *)
MountTypeOK ==
    /\ online \in BOOLEAN /\ cached \in BOOLEAN
    /\ pendingAsk \in Mounters \cup {Nobody}
    /\ sftpAnswer \in {"none", "credentials", "error"}
    /\ mounter \in [Mounters -> {"idle", "waiting", "check", "sshfs", "made"}]
    /\ mountTable \in {"none", "live", "dead"} /\ mountTracked \in BOOLEAN
    /\ releaser \in [Releasers -> {"idle", "resolve", "check", "kill",
                                   "release", "finish"}]
    /\ mounts \in 0..MaxMounts /\ restarted \in BOOLEAN

(* A device is never wedged as mounted: when mounting has ended and the    *)
(* user goes on asking, the mount goes from the kernel and from what the   *)
(* plugin tracks, whatever died, was released by others or outlived a      *)
(* restart of the daemon.                                                  *)
UnmountSettles ==
    <>[](mountTable = "none" /\ ~mountTracked)

=============================================================================
