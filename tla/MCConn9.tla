------------------------------ MODULE MCConn9 ------------------------------
(* Small instances of Conn9.                                               *)
EXTENDS Conn9

AllTypes == {"version", "other", "attach", "clunk", "flush", "create", "open",
             "read", "remove", "stat", "walk", "write", "wstat"}

\* The handlers of a server that lets clients neither stat nor wstat.
Handlers == AllTypes \ {"version", "other", "stat", "wstat"}
=============================================================================
