----------------------------- MODULE MCUpdater ------------------------------
(* TLC instances of Updater: 9.99, 10.05 and 10.10 lie on both sides of the  *)
(* version from which the version file loses a digit.                        *)
EXTENDS Updater

TwoVersions   == {999, 1005}
ThreeVersions == {999, 1005, 1010}
=============================================================================
