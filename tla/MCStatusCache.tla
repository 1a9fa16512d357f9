---------------------------- MODULE MCStatusCache ----------------------------
(* An instance of StatusCache: two statuses formatted by the system, one   *)
(* whose message ends in "\r\n", one that is all terminators, one with a  *)
(* terminator inside the text or before it, and one too long for the     *)
(* buffer.                                                                 *)
EXTENDS StatusCache

CONSTANTS cr, lf, success, keyNotFound, unknown, none

MCChars == {"A", "a", "b", cr, lf}

MCLowerChar == [c \in MCChars |-> IF c = "A" THEN "a" ELSE c]

\* 0 = STATUS_SUCCESS, 3 = notFoundNTStatus.
MCStatuses == 0..7

MCSysMsg ==
    [s \in MCStatuses |->
       CASE s = 1 -> <<"A", "b", cr, lf>>
         [] s = 2 -> <<cr, lf>>
         [] s = 4 -> <<"b", "A", "b", "b", "A">>
         [] s = 5 -> <<"A", lf, "b">>
         [] s = 6 -> <<lf, "A", cr>>
         [] s = 7 -> <<"b">>
         [] OTHER -> <<>>]
=============================================================================
