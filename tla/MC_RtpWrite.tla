---------------------------- MODULE MC_RtpWrite ----------------------------
(***************************************************************************)
(* Messages for RtpWrite.  WRITE_BUF_SIZE is scaled from 256 to 5, so a   *)
(* write keeps at most 4 bytes; the longest real command ("a" and three   *)
(* address:port pairs) is about 75 bytes and fits, like the messages of   *)
(* MC_Fitting, whose longest is exactly one byte short of the buffer.     *)
(***************************************************************************)
EXTENDS RtpWrite

MC_Letters == {"a", "d"}

\* "d 10\n", "a 10 ..." written without a newline (echo -n) and filling the
\* kept part exactly, and "d 1" without a newline.
MC_Fitting == { <<"d", "x", "nl">>, <<"a", "x", "x", "x">>, <<"d", "x">> }

\* One command longer than the buffer: "a 10 ... :5060\n".
MC_Long == { <<"a", "x", "x", "x", "x", "nl">> }
=============================================================================
