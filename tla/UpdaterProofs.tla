--------------------------- MODULE UpdaterProofs ----------------------------
(***************************************************************************)
(* Proofs about Updater, for any set of versions, any faults and any       *)
(* bounds: type correctness, AsksOnlyBootable and RecordNeverGoesBack.     *)
(***************************************************************************)
EXTENDS Updater, TLAPS

\* What download_status = 1 stands for, and what the binary holds between its
\* installation and the restart.
PackageInv ==
    /\ upc \in {"download", "fetch"} => ds = 0
    /\ ds = 1 => lsb.bits = "whole"
    /\ upc \in {"verify", "install", "copy"} => lsb.bits = "whole"
    /\ upc \in {"record", "kill"} => bin.bits = "whole"

\* Versions on their way to the version file are newer than what it holds,
\* and what it holds came out of Stored.
RecordInv ==
    /\ upc \in {"download", "fetch", "verify", "install", "copy", "record"} =>
           vers > uver
    /\ upc \notin {"boot", "down"} => uver >= verfile
    /\ verfile < 1000 \/ verfile % 10 = 0

\* A version being installed and the version of a whole file were published.
Published ==
    /\ upc \in {"download", "fetch", "verify", "install", "copy", "record"} =>
           vers \in Versions
    /\ lsb.bits = "whole" => lsb.v \in Versions
    /\ bin.bits = "whole" => bin.v \in Versions

Budget == [faults : 0 .. MaxFaults, releases : 0 .. MaxReleases]

-----------------------------------------------------------------------------
\* Stored loses at most the last digit.
LEMMA StoredBounds ==
    ASSUME NEW v \in Nat
    PROVE  /\ Stored(v) \in Nat /\ Stored(v) <= v
           /\ Stored(v) < 1000 \/ Stored(v) % 10 = 0
BY DEF Stored

\* Stored keeps a newer version at or above a stored older one.
LEMMA StoredMonotone ==
    ASSUME NEW v \in Nat, NEW w \in Nat, v > w, w < 1000 \/ w % 10 = 0
    PROVE  Stored(v) >= w
BY DEF Stored

\* The file contents the actions build are file contents.
LEMMA FileTypes ==
    /\ Missing \in File /\ Missing.bits = "missing"
    /\ \A v \in Number : /\ Package(v) \in File /\ Package(v).v = v
                         /\ Cut(v) \in File /\ Cut(v).v = v /\ Cut(v).bits = "cut"
                         /\ [v |-> v, bits |-> "bad"] \in File
BY DEF Missing, Package, Cut, File, Number

\* Steps of the updater and its environment keep types and Published.
LEMMA TypeStep ==
    ASSUME TypeOK, Published, [Next]_vars
    PROVE  TypeOK' /\ Published'
<1> USE UpdaterAssumption DEF TypeOK
<1>b. TRUE \in BOOLEAN /\ FALSE \in BOOLEAN
    BY Zenon
<1>n. Versions \subseteq Number /\ 0 \in Number /\ Number \subseteq Nat
    BY DEF Number
<1>v. lsb.v \in Number /\ bin.v \in Number
    BY DEF File
<1>p. \A k : Fault(k) \/ NoFault => budget' \in Budget /\ spoilt' \in BOOLEAN
    <2>1. \A k : Fault(k) \/ NoFault => budget' \in Budget
        BY DEF Fault, NoFault, Budget
    <2>2. \A k : Fault(k) \/ NoFault => spoilt' \in BOOLEAN
        BY Zenon DEF Fault, NoFault
    <2> QED BY <2>1, <2>2
<1>1. CASE Boot
    BY <1>1, <1>n DEF Boot, Goto, Pcs, Published
<1>2. CASE Top
    BY <1>2, <1>n DEF Top, Goto, Pcs, Published
<1>3. CASE Check
    BY <1>3, <1>n, <1>p DEF Check, Goto, Pcs, Budget, Published
<1>4. CASE DownloadStart
    <2>1. lsb' \in File /\ (lsb' = lsb \/ lsb'.bits = "cut")
        BY <1>4, <1>n, FileTypes DEF DownloadStart
    <2>2. budget' \in Budget /\ spoilt' \in BOOLEAN
        BY <1>4, <1>p DEF DownloadStart
    <2> QED BY <1>4, <2>1, <2>2 DEF DownloadStart, Goto, Pcs, Budget, Published
<1>5. CASE Fetch
    <2>1. /\ lsb' \in File /\ digest' \in Number /\ ds' \in {0, 1}
          /\ lsb'.v = srv
        <3>1. lsb' \in {Package(srv), Cut(srv), [v |-> srv, bits |-> "bad"]}
            BY <1>5 DEF Fetch
        <3>2. lsb' \in File /\ lsb'.v = srv
            <4>1. srv \in Number
                BY <1>n
            <4>2. CASE lsb' = Package(srv)
                BY <4>1, <4>2, FileTypes
            <4>3. CASE lsb' = Cut(srv)
                BY <4>1, <4>3, FileTypes
            <4>4. CASE lsb' = [v |-> srv, bits |-> "bad"]
                BY <4>1, <4>4, FileTypes
            <4> QED BY <3>1, <4>2, <4>3, <4>4
        <3>3. digest' \in Number /\ ds' \in {0, 1}
            BY <1>5, <1>n DEF Fetch
        <3> QED BY <3>2, <3>3
    <2>2. budget' \in Budget /\ spoilt' \in BOOLEAN
        BY <1>5, <1>p DEF Fetch
    <2>3. UNCHANGED <<srv, vers, cver, uver, bin, verfile, running, restart>>
        BY <1>5 DEF Fetch
    <2>4. upc = "fetch" /\ upc' \in {"verify", "top"}
        BY <1>5 DEF Fetch, Goto
    <2> QED BY <2>1, <2>2, <2>3, <2>4 DEF Pcs, Budget, Published
<1>6. CASE Verify
    BY <1>6 DEF Verify, Goto, Pcs, Published
<1>7. CASE InstallRemove
    <2>1. /\ bin' \in File /\ bin' \in {bin, Missing}
        BY <1>7, FileTypes DEF InstallRemove
    <2>2. budget' \in Budget /\ spoilt' \in BOOLEAN
        BY <1>7, <1>p DEF InstallRemove
    <2> QED BY <1>7, <2>1, <2>2, FileTypes
            DEF InstallRemove, Goto, Pcs, Budget, Published
<1>8. CASE InstallCopy
    <2>1. bin' \in File /\ bin' \in {lsb, Missing, Cut(lsb.v)}
        BY <1>8, <1>v, FileTypes DEF InstallCopy
    <2>2. bin'.bits = "whole" => bin'.v \in Versions
        BY <2>1, <1>v, FileTypes DEF Published
    <2>3. budget' \in Budget /\ spoilt' \in BOOLEAN
        BY <1>8, <1>p DEF InstallCopy
    <2>4. /\ UNCHANGED <<srv, vers, digest, ds, cver, uver, lsb, verfile, running,
                         restart>>
          /\ upc = "copy" /\ upc' \in {"record", "top"}
        BY <1>8 DEF InstallCopy, Goto
    <2> QED BY <2>1, <2>2, <2>3, <2>4 DEF Pcs, Budget, Published
<1>9. CASE Record
    <2>1. vers \in Versions /\ vers \in Nat /\ Stored(vers) \in Nat
        BY <1>9, StoredBounds DEF Record, Overrun, Goto, Published
    <2>2. verfile' \in Nat
        BY <1>9, <2>1 DEF Record, Overrun
    <2>3. CASE Overrun
        BY <2>3, <1>n, <1>p DEF Overrun, Goto, Pcs, Budget, Published
    <2> QED BY <1>9, <2>1, <2>2, <2>3, <1>p DEF Record, Goto, Pcs, Budget, Published
<1>10. CASE AskRestart
    BY <1>10, <1>b DEF AskRestart, Goto, Pcs, Published
<1>11. ASSUME Execute, NoFault PROVE TypeOK' /\ Published'
    BY <1>11, <1>b, <1>n, <1>p DEF Execute, Pcs, Budget, Published
<1>12. CASE Crash
    BY <1>12, <1>b, <1>n, <1>p DEF Crash, Pcs, Budget, Published
<1>13. CASE Release
    <2>1. budget' \in Budget
        BY <1>13 DEF Release, Budget
    <2> QED BY <1>13, <2>1 DEF Release, Budget, Published
<1>14. CASE UNCHANGED vars
    BY <1>14 DEF vars, Published
<1> QED
    BY <1>1, <1>2, <1>3, <1>4, <1>5, <1>6, <1>7, <1>8, <1>9, <1>10, <1>11,
       <1>12, <1>13, <1>14 DEF Next, UpdaterStep, BooterExec, HostBoot

\* Every reachable state of the updater is well typed; whole files hold
\* published versions.
THEOREM UpdaterTypeCorrect == Spec => [](TypeOK /\ Published)
<1>1. Init => TypeOK /\ Published
    <2> SUFFICES ASSUME Init
                 PROVE  TypeOK /\ Published
        OBVIOUS
    <2> USE UpdaterAssumption DEF Init
    <2>1. restart \in BOOLEAN /\ spoilt \in BOOLEAN
        BY Zenon
    <2>2. First \in Number /\ 0 \in Number /\ 0 \in Nat
        BY DEF Number
    <2>3. lsb \in File /\ lsb.bits = "missing"
        BY FileTypes
    <2>4. bin \in File /\ bin.v = First
        BY <2>2, FileTypes
    <2>5. budget \in Budget
        BY DEF Budget
    <2>6. TypeOK
        BY <2>1, <2>2, <2>3, <2>4, <2>5 DEF TypeOK, Pcs, Budget
    <2>7. Published
        BY <2>3, <2>4 DEF Published
    <2> QED BY <2>6, <2>7
<1>2. TypeOK /\ Published /\ [Next]_vars => (TypeOK /\ Published)'
    BY TypeStep
<1> QED BY <1>1, <1>2, PTL DEF Spec

-----------------------------------------------------------------------------
\* As long as nothing is spoilt, a package marked as downloaded is whole and so is a
\* binary the updater has just installed.
LEMMA PackageStep ==
    ASSUME TypeOK, PackageInv, [Next]_vars, ~spoilt'
    PROVE  PackageInv'
<1> USE UpdaterAssumption DEF PackageInv, Goto
<1>f. ~Fault("corrupt") /\ ~Fault("fwrite") /\ ~Fault("short")
    BY DEF Fault, Corrupting
<1>1. CASE Boot
    BY <1>1 DEF Boot
<1>2. CASE Top
    BY <1>2 DEF Top
<1>3. CASE Check
    BY <1>3 DEF Check, TypeOK
<1>4. CASE DownloadStart
    BY <1>4 DEF DownloadStart
<1>5. CASE Fetch
    <2>1. Package(srv).bits = "whole"
        BY DEF Package
    <2> QED BY <1>5, <1>f, <2>1 DEF Fetch
<1>6. CASE Verify
    BY <1>6 DEF Verify
<1>7. CASE InstallRemove
    BY <1>7 DEF InstallRemove
<1>8. CASE InstallCopy
    BY <1>8, <1>f DEF InstallCopy
<1>9. CASE Record
    BY <1>9 DEF Record, Overrun
<1>10. CASE AskRestart
    BY <1>10 DEF AskRestart
<1>11. CASE Execute
    BY <1>11 DEF Execute
<1>12. CASE Crash
    BY <1>12 DEF Crash
<1>13. CASE Release
    BY <1>13 DEF Release
<1>14. CASE UNCHANGED vars
    BY <1>14 DEF vars
<1> QED
    BY <1>1, <1>2, <1>3, <1>4, <1>5, <1>6, <1>7, <1>8, <1>9, <1>10, <1>11,
       <1>12, <1>13, <1>14 DEF Next, UpdaterStep, BooterExec, HostBoot

\* As long as no fault has corrupted bytes unnoticed, the updater sends SIGUSR1 to
\* the booter only with a whole binary in place.
THEOREM RestartIsSafe == Spec => AsksOnlyBootable
<1> DEFINE Inv == ~spoilt => PackageInv
<1>1. Init => Inv
    BY DEF Init, PackageInv, Missing
<1>2. TypeOK /\ Inv /\ [Next]_vars => Inv'
    <2> SUFFICES ASSUME TypeOK, Inv, [Next]_vars, ~spoilt'
                 PROVE  PackageInv'
        OBVIOUS
    <2>1. ~spoilt
        BY DEF Next, UpdaterStep, Boot, Top, Check, DownloadStart, Fetch, Verify,
               InstallRemove, InstallCopy, Record, Overrun, AskRestart, BooterExec,
               HostBoot, Execute, Crash, Release, Fault, NoFault, vars
    <2> QED BY <2>1, PackageStep
<1>3. Inv /\ [Next]_vars =>
        [~spoilt /\ restart' /\ ~restart => bin.bits = "whole"]_vars
    <2> SUFFICES ASSUME Inv, Next, ~spoilt, restart', ~restart
                 PROVE  bin.bits = "whole"
        OBVIOUS
    <2>1. AskRestart
        BY DEF Next, UpdaterStep, Boot, Top, Check, DownloadStart, Fetch, Verify,
               InstallRemove, InstallCopy, Record, Overrun, BooterExec, HostBoot, Execute,
               Crash, Release
    <2> QED BY <2>1 DEF AskRestart, Goto, PackageInv
<1> QED
    <2> HIDE DEF Inv
    <2> QED BY <1>1, <1>2, <1>3, UpdaterTypeCorrect, PTL
            DEF Spec, AsksOnlyBootable

-----------------------------------------------------------------------------
\* The bookkeeping of versions is preserved.
LEMMA RecordStep ==
    ASSUME TypeOK, RecordInv, [Next]_vars
    PROVE  RecordInv' /\ (verfile' = verfile \/ verfile' >= verfile \/ verfile' = 0)
<1> USE UpdaterAssumption DEF RecordInv, Goto, TypeOK
<1>n. vers \in Nat /\ srv \in Nat
    BY DEF Number
<1>1. CASE Boot
    BY <1>1 DEF Boot
<1>2. CASE Top
    BY <1>2 DEF Top
<1>3. CASE Check
    BY <1>3, <1>n DEF Check
<1>4. CASE DownloadStart
    BY <1>4 DEF DownloadStart
<1>5. CASE Fetch
    BY <1>5 DEF Fetch
<1>6. CASE Verify
    BY <1>6 DEF Verify
<1>7. CASE InstallRemove
    BY <1>7 DEF InstallRemove
<1>8. CASE InstallCopy
    BY <1>8 DEF InstallCopy
<1>9. CASE Record
    <2>0. CASE Overrun
        BY <2>0 DEF Overrun
    <2>1. vers > verfile
        BY <1>9, <1>n DEF Record, Overrun
    <2>2. Stored(vers) >= verfile
        BY <1>n, <2>1, StoredMonotone
    <2>3. /\ Stored(vers) \in Nat /\ Stored(vers) <= vers
          /\ Stored(vers) < 1000 \/ Stored(vers) % 10 = 0
        BY <1>n, StoredBounds
    <2>4. CASE /\ verfile' \in {Stored(vers), verfile, 0}
               /\ uver' = vers /\ upc' = "kill"
        BY <1>n, <2>1, <2>2, <2>3, <2>4
    <2> QED BY <1>9, <2>0, <2>4 DEF Record
<1>10. CASE AskRestart
    BY <1>10 DEF AskRestart
<1>11. CASE Execute
    BY <1>11 DEF Execute
<1>12. CASE Crash
    BY <1>12 DEF Crash
<1>13. CASE Release
    BY <1>13 DEF Release
<1>14. CASE UNCHANGED vars
    BY <1>14 DEF vars
<1> QED
    BY <1>1, <1>2, <1>3, <1>4, <1>5, <1>6, <1>7, <1>8, <1>9, <1>10, <1>11,
       <1>12, <1>13, <1>14 DEF Next, UpdaterStep, BooterExec, HostBoot

\* The recorded version never decreases unless the version file is lost.
THEOREM RecordIsMonotone == Spec => RecordNeverGoesBack
<1>1. Init => RecordInv
    BY DEF Init, RecordInv
<1>2. TypeOK /\ RecordInv /\ [Next]_vars => RecordInv'
    BY RecordStep
<1>3. TypeOK /\ RecordInv /\ [Next]_vars =>
        [verfile' >= verfile \/ verfile' = 0]_verfile
    BY RecordStep
<1> QED BY <1>1, <1>2, <1>3, UpdaterTypeCorrect, PTL
        DEF Spec, RecordNeverGoesBack
=============================================================================
