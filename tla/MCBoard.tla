------------------------------ MODULE MCBoard ------------------------------
(***************************************************************************)
(* Servers: a fragmented text with a ping between its fragments, followed  *)
(* by a second text; binary data before a text too long for the frame      *)
(* buffer, and a close; and one whose response does not fit the handshake  *)
(* buffer.                                                                 *)
(***************************************************************************)
EXTENDS Board

Frame(type, msg, len, fin) == [type |-> type, msg |-> msg, len |-> len, fin |-> fin]

MCServers ==
    {[response |-> 2,
      frames |-> <<Frame("text", 1, 2, FALSE), Frame("ping", 0, 1, TRUE),
                   Frame("text", 1, 1, TRUE), Frame("text", 2, 1, TRUE)>>],
     [response |-> 2,
      frames |-> <<Frame("binary", 0, 2, TRUE), Frame("text", 1, 4, TRUE),
                   Frame("close", 0, 0, TRUE)>>],
     [response |-> 5, frames |-> <<>>]}

==============================================================================
