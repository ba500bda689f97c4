----------------------------- MODULE ReliableChannel -----------------------------
(***************************************************************************)
(* What a reliable channel promises (include/pomelo/common.h:90): the      *)
(* parcels the sender has taken on arrive in that order, each once, and    *)
(* success is reported of no parcel the other end does not have.           *)
(***************************************************************************)
EXTENDS Sequences, Naturals

CONSTANT Parcels

VARIABLES taken,        \* the parcels the sender has taken on, in order
          arrived,      \* the parcels handed to the receiving application, in order
          reported      \* the parcels reported as sent

cvars == <<taken, arrived, reported>>

CInit == taken = <<>> /\ arrived = <<>> /\ reported = {}

Take(p) == /\ taken' = Append(taken, p)
           /\ UNCHANGED <<arrived, reported>>

Arrive == /\ Len(arrived) < Len(taken)
          /\ arrived' = Append(arrived, taken[Len(arrived) + 1])
          /\ UNCHANGED <<taken, reported>>

\* A parcel may be reported while the receiver still verifies its checksum.
Report == /\ \E n \in 1 .. Len(taken) : /\ n <= Len(arrived) + 1
                                        /\ reported' = reported \union {taken[n]}
          /\ UNCHANGED <<taken, arrived>>

CNext == (\E p \in Parcels : Take(p)) \/ Arrive \/ Report

CSpec == CInit /\ [][CNext]_cvars
===============================================================================
