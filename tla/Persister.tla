------------------------------ MODULE Persister ------------------------------
(***************************************************************************)
(* The startd's asynchronous claim persister (internal/startd/startd.go)   *)
(* over the durable claim store (internal/persist/store.go).  The event    *)
(* loop puts records and deletes keys; the writer goroutine takes whatever *)
(* is pending as one batch and commits it record by record, in any order,  *)
(* outside the lock.                                                       *)
(*                                                                         *)
(* The three variables are total functions on Key; NoRecord marks a key    *)
(* without a record.  The wake channel is left out: a put either finds a   *)
(* wake-up pending or leaves one, so the writer flushes whenever something *)
(* is pending and its previous batch is done.                              *)
(***************************************************************************)
CONSTANTS Key, NoRecord

VARIABLES pending,  \* p.pending: the latest record put per key
          batch,    \* the records the running flush has yet to commit
          store     \* the collection on disk

Empty == [k \in Key |-> NoRecord]

put_FirstWins(recs) ==
  pending' = [k \in Key |-> IF k \in DOMAIN recs /\ pending[k] = NoRecord THEN recs[k]
                            ELSE pending[k]]

\* put, for every record of the function recs: the latest record of a key wins.
put(recs) ==
  pending' = [k \in Key |-> IF k \in DOMAIN recs THEN recs[k] ELSE pending[k]]

\* flush takes the whole pending map under the lock.
flush ==
  /\ batch = Empty
  /\ pending # Empty
  /\ batch' = pending
  /\ pending' = Empty
  /\ UNCHANGED store

\* commit of one record of the batch; a Put that fails is only logged.
commit(k, ok) ==
  /\ batch[k] # NoRecord
  /\ batch' = [batch EXCEPT ![k] = NoRecord]
  /\ store' = IF ok THEN [store EXCEPT ![k] = batch[k]] ELSE store
  /\ UNCHANGED pending

\* Store.Delete, called synchronously from the event loop.
Delete(k) == store' = [store EXCEPT ![k] = NoRecord]


\* stop has drained the persister.
Drained == pending = Empty /\ batch = Empty
=============================================================================
