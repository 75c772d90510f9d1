---------------------------- MODULE MCCASEngine ----------------------------
(***************************************************************************)
(* The daemon and the proxy over one directory, two contents of two chunks *)
(* each; and the daemon alone.                                             *)
(***************************************************************************)
EXTENDS CASEngine, TLC

CONSTANTS daemon, proxy, x, y

MCWriters == {daemon, proxy}
MCDaemonOnly == {daemon}
MCBlobs == {x, y}
MCOneBlob == {x}
=============================================================================
