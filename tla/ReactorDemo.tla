---------------------------- MODULE ReactorDemo -----------------------------
(***************************************************************************)
(* Reactor's properties under the names that MCUnits checks on a small     *)
(* instance and ReactorProofs proves for every value of the constants.     *)
(***************************************************************************)
EXTENDS Integers

CONSTANTS MAX_EVENTS, ScanSize, Timeout, BUFLEN, ByteBase, Fds, MaxAccepts, MaxIn, SendRoom
VARIABLES ev, checkpos, pc, batch, cur, reg, sock, backlog, made

Re == INSTANCE Reactor

(* The size of buf is a multiple of 256 in Reactor.c, so that the NUL      *)
(* written behind a full buffer leaves len as it is.                       *)
ReConstants ==
  /\ MAX_EVENTS \in Nat \ {0} /\ BUFLEN \in Nat \ {0} /\ ByteBase \in Nat \ {0}
  /\ BUFLEN % ByteBase = 0
  /\ Fds \subseteq Nat /\ {ScanSize, Timeout, MaxAccepts, MaxIn, SendRoom} \subseteq Nat

ASSUME ReAssumption == ReConstants

(* Slots, epoll and open descriptors agree (eventadd, eventdel, acceptconn *)
(* and the timeout scan).                                                  *)
ReTableAgrees == Re!TableAgrees

(* No event of a batch outlives what it was reported for (main's loop).    *)
ReEventsFresh == Re!EventsFresh

(* A client gets back what it sent, unless a send was short (recvdata,     *)
(* senddata).                                                              *)
ReEcho == Re!Echo
=============================================================================
