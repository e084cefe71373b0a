------------------------------ MODULE Updater -------------------------------
(***************************************************************************)
(* The self-update of main/app_updater.c: ask the console for the latest   *)
(* version, download its package to the SDK directory, verify its md5,     *)
(* replace /usr/local/bin/sarah-booter by it, record the version and ask   *)
(* the booter to execute the new binary.                                   *)
(*                                                                         *)
(* A package is the version it was built as plus whether its bytes are     *)
(* whole; the md5 signature of a whole package is its version, so the      *)
(* digest of the bytes received is compared with the version announced.    *)
(* Versions are numbers in hundredths (1.05 is 105).  The booter and the   *)
(* console are environment: the booter executes whatever the binary file   *)
(* holds once the updater has left, the console may publish at any moment. *)
(***************************************************************************)
EXTENDS Integers

CONSTANTS
    Versions,    \* versions the console may publish, in hundredths
    First,       \* the version installed at first
    FaultKinds,  \* the kinds of faults of this instance
    MaxFaults,   \* bound: faults
    MaxReleases  \* bound: publications of the console

AllFaults ==
    {"check",     \* the version request fails
     "transport", \* the download fails, at once or half way
     "corrupt",   \* the download delivers other bytes
     "fwrite",    \* the disk is full while the package is stored
     "early",     \* _install_package fails before it removes the binary
     "late",      \* ... after
     "short",     \* a write() of the copy is short
     "setver",    \* the version file cannot be written
     "crash",     \* the host or the client is killed
     "rollback"}  \* the console publishes an older version
Corrupting == {"corrupt", "fwrite", "short"}

ASSUME UpdaterAssumption ==
    /\ Versions \subseteq Nat \ {0}
    /\ First \in Versions
    /\ FaultKinds \subseteq AllFaults
    /\ MaxFaults \in Nat /\ MaxReleases \in Nat

VARIABLES
    upc,      \* where the updater is in its loop
    srv,      \* the version the console publishes
    vers,     \* version.value (and its signature) of this round
    digest,   \* package.md5_sign: a version, or 0 for other bytes
    ds,       \* download_status
    cver,     \* c_version_no
    uver,     \* updater.version
    lsb,      \* the package file in the SDK directory
    bin,      \* /usr/local/bin/sarah-booter
    verfile,  \* the version file, 0 if it has none
    running,  \* the version of the running client
    restart,  \* the booter has been sent SIGUSR1
    spoilt,   \* history: a fault has corrupted bytes unnoticed
    budget    \* what is left of the bounds

vars == <<upc, srv, vers, digest, ds, cver, uver, lsb, bin, verfile, running,
          restart, spoilt, budget>>

Pcs      == {"boot", "top", "check", "download", "fetch", "verify", "install",
             "copy", "record", "kill", "aborted", "down"}
Number   == Versions \cup {0}
File     == [v : Number, bits : {"whole", "cut", "bad", "missing"}]
Package(v) == [v |-> v, bits |-> "whole"]
Cut(v)     == [v |-> v, bits |-> "cut"]
Missing    == [v |-> 0, bits |-> "missing"]

\* sarah_updater_set_version then get_version: "%.2f" cut to four characters,
\* so from 10.00 on the last digit is lost
Stored(v) == IF v < 1000 THEN v ELSE v - (v % 10)

TypeOK ==
    /\ upc \in Pcs
    /\ srv \in Versions /\ vers \in Number /\ digest \in Number
    /\ ds \in {0, 1}
    /\ cver \in Versions /\ uver \in Nat /\ verfile \in Nat
    /\ lsb \in File /\ bin \in File
    /\ running \in Versions
    /\ restart \in BOOLEAN
    /\ spoilt \in BOOLEAN
    /\ budget \in [faults : 0 .. MaxFaults, releases : 0 .. MaxReleases]

Fault(kind) ==
    /\ kind \in FaultKinds
    /\ budget.faults > 0
    /\ budget' = [budget EXCEPT !.faults = @ - 1]
    /\ spoilt' = (spoilt \/ kind \in Corrupting)
NoFault == UNCHANGED <<spoilt, budget>>

Goto(from, to) == upc = from /\ upc' = to

-----------------------------------------------------------------------------
\* (mutant) the current version is taken from the version file
Boot_FromFile ==
    /\ Goto("boot", "top")
    /\ cver' = verfile /\ uver' = verfile
    /\ ds' = 0
    /\ UNCHANGED <<srv, vers, digest, lsb, bin, verfile, running, restart, spoilt, budget>>

\* sarah_updater_init and the initialisation of the loop's variables
Boot ==
    /\ Goto("boot", "top")
    /\ cver' = running
    /\ uver' = verfile
    /\ ds' = 0
    /\ UNCHANGED <<srv, vers, digest, lsb, bin, verfile, running, restart, spoilt, budget>>

\* the head of the loop, when neither EXIT nor STOP was handled
Top ==
    /\ Goto("top", "check")
    /\ vers' = 0
    /\ UNCHANGED <<srv, digest, ds, cver, uver, lsb, bin, verfile, running,
                   restart, spoilt, budget>>

\* (mutant) the version file is not consulted
Check_BuiltInOnly ==
    /\ vers' = srv
    /\ Goto("check", IF srv <= cver THEN "top"
                     ELSE IF ds = 1 THEN "install" ELSE "download")
    /\ NoFault
    /\ UNCHANGED <<srv, digest, ds, cver, uver, lsb, bin, verfile, running, restart>>

\* (mutant) < for <=: the version already installed counts as new
Check_SameIsNew ==
    /\ vers' = srv
    /\ Goto("check", IF srv < cver \/ srv < uver THEN "top"
                     ELSE IF ds = 1 THEN "install" ELSE "download")
    /\ NoFault
    /\ UNCHANGED <<srv, digest, ds, cver, uver, lsb, bin, verfile, running, restart>>

\* _get_latest_version and the decision whether to update; a package that is
\* already stored (download_status) is neither downloaded nor verified
Check ==
    /\ \/ /\ vers' = srv
          /\ Goto("check", IF srv <= cver \/ srv <= uver THEN "top"
                           ELSE IF ds = 1 THEN "install" ELSE "download")
          /\ NoFault
       \/ /\ Fault("check")
          /\ Goto("check", "top")
          /\ UNCHANGED vers
    /\ UNCHANGED <<srv, digest, ds, cver, uver, lsb, bin, verfile, running, restart>>

\* _download_package: fopen("wb") empties the package file, or fails
DownloadStart ==
    /\ \/ Goto("download", "fetch") /\ lsb' = Cut(0) /\ NoFault
       \/ Goto("download", "top") /\ Fault("transport") /\ UNCHANGED lsb
    /\ UNCHANGED <<srv, vers, digest, ds, cver, uver, bin, verfile, running,
                   restart>>

\* The transfer.  The digest is taken of the bytes received, not of the file,
\* and download_status is set before the signature is compared.
Fetch ==
    /\ \/ /\ Goto("fetch", "verify")
          /\ ds' = 1
          /\ \/ lsb' = Package(srv) /\ digest' = srv /\ NoFault
             \/ lsb' = [v |-> srv, bits |-> "bad"] /\ digest' = 0 /\ Fault("corrupt")
             \/ lsb' = Cut(srv) /\ digest' = srv /\ Fault("fwrite")
       \/ /\ Goto("fetch", "top")
          /\ lsb' = Cut(srv)
          /\ Fault("transport")
          /\ UNCHANGED <<ds, digest>>
    /\ UNCHANGED <<srv, vers, cver, uver, bin, verfile, running, restart>>

Verify ==
    /\ Goto("verify", IF digest = vers THEN "install" ELSE "top")
    /\ UNCHANGED <<srv, vers, digest, ds, cver, uver, lsb, bin, verfile, running,
                   restart, spoilt, budget>>

\* _install_package up to the removal of the old binary
InstallRemove ==
    /\ \/ Goto("install", "copy") /\ bin' = Missing /\ NoFault
       \/ Goto("install", "top") /\ Fault("early") /\ UNCHANGED bin
    /\ UNCHANGED <<srv, vers, digest, ds, cver, uver, lsb, verfile, running, restart>>

\* (mutant) the result of _install_package is not checked
InstallCopy_Unchecked ==
    /\ Goto("copy", "record")
    /\ \/ bin' = lsb /\ NoFault
       \/ bin' \in {Missing, Cut(lsb.v)} /\ Fault("late")
    /\ UNCHANGED <<srv, vers, digest, ds, cver, uver, lsb, verfile, running, restart>>

\* The copy.  Every write() writes the whole buffer, so the copy may end in
\* bytes left over from the block before (it is still a whole program); a
\* short write goes unnoticed.
InstallCopy ==
    /\ \/ Goto("copy", "record") /\ bin' = lsb /\ NoFault
       \/ Goto("copy", "record") /\ bin' = Cut(lsb.v) /\ Fault("short")
       \/ Goto("copy", "top") /\ bin' \in {Missing, Cut(lsb.v)} /\ Fault("late")
    /\ UNCHANGED <<srv, vers, digest, ds, cver, uver, lsb, verfile, running, restart>>

\* sarah_updater_set_version prints 10.00 and more into a buffer a byte too
\* short: undefined behaviour, in which a build that checks its buffers ends the
\* updater, and any other writes a zero byte that nothing reads.
Overrun ==
    /\ Goto("record", "aborted")
    /\ vers >= 1000
    /\ vers' = 0 /\ digest' = 0 /\ ds' = 0
    /\ NoFault
    /\ UNCHANGED <<srv, cver, uver, lsb, bin, verfile, running, restart>>

\* the bookkeeping after the installation, with sarah_updater_set_version
Record ==
    \/ /\ Goto("record", "kill")
       /\ cver' = vers
       /\ ds' = 0
       /\ uver' = vers
       /\ \/ verfile' = Stored(vers) /\ NoFault
          \/ verfile' \in {verfile, 0} /\ Fault("setver")
       /\ UNCHANGED <<srv, vers, digest, lsb, bin, running, restart>>
    \/ Overrun

\* (mutant) the restart signal is not sent
AskRestart_Never ==
    /\ Goto("kill", "top")
    /\ UNCHANGED <<srv, vers, digest, ds, cver, uver, lsb, bin, verfile, running,
                   restart, spoilt, budget>>

\* kill(booter->pid, SIGUSR1)
AskRestart ==
    /\ Goto("kill", "top")
    /\ restart' = TRUE
    /\ UNCHANGED <<srv, vers, digest, ds, cver, uver, lsb, bin, verfile, running,
                   spoilt, budget>>

UpdaterStep ==
    \/ Boot \/ Top \/ Check \/ DownloadStart \/ Fetch \/ Verify
    \/ InstallRemove \/ InstallCopy \/ Record \/ AskRestart

-----------------------------------------------------------------------------
(***************************************************************************)
(* Environment.                                                            *)
(***************************************************************************)

\* Execute the binary: only a whole one comes up.
Execute ==
    /\ IF bin.bits = "whole"
       THEN running' = bin.v /\ upc' = "boot"
       ELSE upc' = "down" /\ UNCHANGED running
    /\ restart' = FALSE
    /\ vers' = 0 /\ digest' = 0 /\ ds' = 0
    /\ UNCHANGED <<srv, cver, uver, lsb, bin, verfile>>

\* The booter has seen RESTART, the updater has ended, at a check of its loop or
\* before, and main() calls execve.
BooterExec ==
    /\ restart
    /\ upc \in {"top", "aborted"}
    /\ Execute
    /\ NoFault

\* power loss or SIGKILL at any point, and the start that follows
Crash ==
    /\ upc # "down"
    /\ Fault("crash")
    /\ upc' = "down"
    /\ restart' = FALSE
    /\ vers' = 0 /\ digest' = 0 /\ ds' = 0
    /\ UNCHANGED <<srv, cver, uver, lsb, bin, verfile, running>>

\* the start of a host that is down, or of a client whose updater has ended
HostBoot ==
    /\ upc \in {"down", "aborted"}
    /\ bin.bits = "whole"
    /\ Execute
    /\ NoFault

Release ==
    /\ budget.releases > 0
    /\ srv' \in {v \in Versions : v > srv \/ (v < srv /\ "rollback" \in FaultKinds)}
    /\ budget' = [budget EXCEPT !.releases = @ - 1]
    /\ UNCHANGED <<upc, vers, digest, ds, cver, uver, lsb, bin, verfile, running,
                   restart, spoilt>>

Init ==
    /\ upc = "boot"
    /\ srv = First /\ vers = 0 /\ digest = 0 /\ ds = 0
    /\ cver = First /\ uver = 0
    /\ lsb = Missing /\ bin = Package(First)
    /\ verfile = 0
    /\ running = First
    /\ restart = FALSE /\ spoilt = FALSE
    /\ budget = [faults |-> MaxFaults, releases |-> MaxReleases]

Next == UpdaterStep \/ BooterExec \/ Crash \/ HostBoot \/ Release

\* The updater and the booter are scheduled, and a host that is down and can
\* be started is started again; an updater that aborted is not, as the reboot
\* loop passes over its slot.  A booter with a pending RESTART acts although
\* the updater may start another round first (the updater sleeps two minutes,
\* the booter six seconds): strong fairness.
Fairness == WF_vars(UpdaterStep) /\ SF_vars(BooterExec) /\ WF_vars(upc = "down" /\ HostBoot)

Spec     == Init /\ [][Next]_vars
FairSpec == Spec /\ Fairness

-----------------------------------------------------------------------------
(***************************************************************************)
(* Properties.                                                             *)
(***************************************************************************)

\* The updater asks for a restart only with a bootable binary in place, as
\* long as nothing has corrupted bytes behind its back: a failed download, a failed
\* installation or a publication between check and download never make the
\* booter execute a missing or partial file.
AsksOnlyBootable ==
    [][~spoilt /\ restart' /\ ~restart => bin.bits = "whole"]_vars

\* The version on record never goes back (but for a lost version file), even
\* when the console publishes an older version and whatever fails.
RecordNeverGoesBack == [][verfile' >= verfile \/ verfile' = 0]_verfile

\* the client does not run, and there is no whole binary to start
Bricked == upc = "down" /\ bin.bits # "whole"

\* the record is ahead of the binary: a package was installed under the name of
\* a version published after it
Mislabelled == bin.bits = "whole" /\ \E n \in {cver, uver, verfile} : n > bin.v

\* A published version gets to run, in spite of failed checks, downloads and
\* installations, of crashes and of publications at any moment, unless it is
\* withdrawn, the binary was lost or cut on the way, an older package was
\* recorded under its name, or the updater was ended by its overrun.
UpdateArrives ==
    \A v \in Versions :
        srv = v ~> (running >= v \/ srv < v \/ Bricked \/ Mislabelled \/ upc = "aborted")

\* Restarts come to an end: an installed version is not installed again and
\* again.
Settles == <>[]~restart

\* "Try to verify the package signature": what is installed is the package of
\* the version announced, whole.
InstallsOnlyVerified == upc \in {"install", "copy"} => lsb = Package(vers)
=============================================================================
