---------------------------- MODULE NucleusClaims ----------------------------
(****************************************************************************)
(* What comments of the nucleus say of a process that waits for a device or *)
(* on a semaphore, and its handlers do not ensure.                          *)
(****************************************************************************)
EXTENDS Nucleus

(* A step wakes p, which waited on the device semaphore i.                  *)
Wakes(p, i) == semAdd[p] = i /\ p \notin pcbFree' /\ semAdd'[p] = NULL

(* A process that waits for the transmission side of a terminal is woken    *)
(* when that side "ha completato l'invio di un carattere o ha avuto un      *)
(* errore" (interrupt.c:280), not while it is still sending.                *)
TransmitterWokenWhenFinished ==
  [][\A p \in Pcbs, d \in Terminals :
       Wakes(p, 40 + d) => Finished(40 + d)]_vars

(* The process that called doIO() finds in reg_a0 "il risultato             *)
(* dell'operazione" (interrupt.c:301-303): the status it is woken with is   *)
(* that of the command it wrote itself.                                     *)
OwnResult ==
  [][\A p \in Pcbs, i \in PlainDevices : Wakes(p, i) => device[i].by = p]_vars

(* "Invariante: se sem < 0, |sem| == numero di processi bloccati"           *)
(* (exception.c:419), the processes blockedCount finds in the queue of the  *)
(* semaphore.  It holds while insertBlocked has a descriptor to give; the   *)
(* nucleus relies on that and outBlocked keeps descriptors back.            *)
NegativeCountsBlocked ==
  \A s \in UserSems : sem[s] < 0 => Len(blocked[s]) = -sem[s]
=============================================================================
