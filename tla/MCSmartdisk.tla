---------------------------- MODULE MCSmartdisk -----------------------------
(* A TLC instance of Smartdisk: a SATA bay and an NVMe bay; an ext4 disk    *)
(* with a partition and a blank one, or two that hold ext4 and xfs on the   *)
(* whole device; both in their bays at first, one of them or none.  The     *)
(* first disk's plan would run past its end, the second's has three         *)
(* partitions that fit.  The hash codes collide in the first table, of two  *)
(* buckets, which a second identity has rebuilt.                            *)
EXTENDS Smartdisk, TLC

CONSTANTS sata, nvme, d1, d2, w1, w2, i1, i2

MCKeys   == {w1, w2, i1, i2, Zero}
MCHash   == w1 :> 4 @@ w2 :> 9 @@ i1 :> 6 @@ i2 :> 8 @@ Zero :> 10
MCWwn    == d1 :> w1 @@ d2 :> w2
MCDiskId == d1 :> i1 @@ d2 :> i2
MCFs     == d1 :> [blank |-> "", whole |-> "ext4", parts |-> "ext4"] @@
            d2 :> [blank |-> "", whole |-> "xfs", parts |-> "ntfs"]
MCBays   == {sata :> d1 @@ nvme :> d2, sata :> NoDisk @@ nvme :> d1,
             sata :> NoDisk @@ nvme :> NoDisk}
MCLayout == {d1 :> "parts" @@ d2 :> "blank", d1 :> "whole" @@ d2 :> "whole"}
MCBlocks == d1 :> 9 @@ d2 :> 11
=============================================================================
