----------------------------- MODULE MCPortWatch -----------------------------
(***************************************************************************)
(* A machine on which the adapter shows a callout and a dial-in port, and  *)
(* which has another USB serial device that the default patterns match.    *)
(***************************************************************************)
EXTENDS PortWatch

MCMatchedBy == [n \in Names |-> {"usb"}]
MCRank == [n \in Names |-> IF n = "/dev/tty.usb" THEN 2 ELSE 0]
MCBase == [p \in Paths |-> IF p = "cu.usb" THEN "/dev/cu.usb" ELSE p]

MCExpandHome == [s \in {"~/s", "/home/s", "/run/s"} |-> IF s = "~/s" THEN "/home/s" ELSE s]
MCTrimmed ==
  [r \in {"", "  ", "on", " Follow ", "follow"} |->
     CASE r = "  " -> "" [] r = " Follow " -> "follow" [] OTHER -> r]

\* Nothing written; a port, a host that is none and no delay; patterns that match
\* nothing, and the edges of what counts; and a file that does not parse.
MCFiles ==
  {EmptyFile,
   [port |-> "cu.usb", myHost |-> 3, poll |-> Text(2), socket |-> "~/s",
    patterns |-> {"usb"}, delay |-> Text(0), restore |-> "  "],
   [port |-> NoPath, myHost |-> 2, poll |-> Text(-1), socket |-> NoPath,
    patterns |-> {"none"}, delay |-> Text(-1), restore |-> " Follow "],
   [EmptyFile EXCEPT !.poll = Malformed]}

MCFlagSets ==
  {NoFlags,
   [NoFlags EXCEPT !.port = "cu.usb"],
   [NoFlags EXCEPT !.myHost = 3, !.socket = "~/s"]}

=============================================================================
