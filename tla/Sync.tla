-------------------------------- MODULE Sync --------------------------------
(***************************************************************************)
(* The blocking primitives of components/impl: the "binary" semaphore and  *)
(* the mutex of impl/concurrency.h, as the two builds implement them.      *)
(*                                                                         *)
(* A semaphore is a number of tokens.  The FreeRTOS build creates it with  *)
(* xSemaphoreCreateBinary, so a give on a given semaphore is absorbed;     *)
(* the POSIX build backs it with sem_init / sem_post, so gives pile up to  *)
(* SEM_VALUE_MAX.  SemMax is that ceiling: 1 on the headphones, larger on  *)
(* the server.                                                             *)
(*                                                                         *)
(* A mutex is the thread that holds it, or NoThread.                       *)
(***************************************************************************)
EXTENDS Naturals

CONSTANTS
  SemMax,     (* the most tokens a semaphore can hold *)
  NoThread    (* the holder of a mutex nobody holds   *)

ASSUME SemMaxAssumption == SemMax \in Nat \ {0}

-----------------------------------------------------------------------------

(* bin_sem_init: created with no token. *)
SemInit == 0

(* Mutant: the ceiling is forgotten. *)
SemGivePiles(sem) == sem + 1

(* bin_sem_give: one more token, unless the ceiling absorbs it. *)
SemGive(sem) == IF sem < SemMax THEN sem + 1 ELSE sem

(* bin_sem_take without a timeout: blocks until there is a token. *)
SemAvailable(sem) == sem > 0
SemTake(sem) == sem - 1

(* bin_sem_deinit has no caller.  mutex_init: created free. *)
MutexInit == NoThread
=============================================================================
