---------------------------- MODULE DStorageLoader ----------------------------
(***************************************************************************)
(* The CPU decompression of BulkLoadDemo.  DirectStorage queues what it    *)
(* wants decompressed and sets an event; a wait of the thread pool runs    *)
(* OnCustomDecompressionRequestsAvailable, which moves batches of requests *)
(* to a deque, submits one work item for each and waits again; a work item *)
(* takes the front of the deque.                                           *)
(***************************************************************************)
EXTENDS Integers, Sequences

CONSTANT BatchSize   \* requests a call of GetRequests1 returns at most

ASSUME BatchAssumption == BatchSize \in Nat \ {0}

VARIABLES
  custom,    \* what DirectStorage has queued for GetRequests1
  event,     \* g_customDecompressionQueueEvent: set
  callback,  \* where the callback is, its batch, the work it has yet to submit
  deque,     \* g_decompressionRequests
  works,     \* work items submitted that have not begun
  working    \* the requests of those that have

loaderVars == <<custom, event, callback, deque, works, working>>

LoaderInit ==
  /\ custom = <<>> /\ event = FALSE
  /\ callback = [at |-> "waiting", batch |-> <<>>, left |-> 0]
  /\ deque = <<>> /\ works = 0 /\ working = {}

\* DirectStorage has read what r needs: the queue and its event are its own.
QueueRequest(r) ==
  /\ custom' = Append(custom, r) /\ event' = TRUE
  /\ UNCHANGED <<callback, deque, works, working>>

\* The wait is over for one callback, and the event is reset.
StartCallback ==
  /\ callback.at = "waiting" /\ event
  /\ event' = FALSE /\ callback' = [callback EXCEPT !.at = "pulling"]
  /\ UNCHANGED <<custom, deque, works, working>>

GetRequests1 ==
  LET n == IF Len(custom) < BatchSize THEN Len(custom) ELSE BatchSize
  IN /\ callback.at = "pulling"
     /\ custom' = SubSeq(custom, n + 1, Len(custom))
     /\ callback' = [callback EXCEPT !.at = IF n = 0 THEN "rearming" ELSE "pushing",
                                     !.batch = SubSeq(custom, 1, n)]
     /\ UNCHANGED <<event, deque, works, working>>

\* Under the lock of the deque.
PushBatch ==
  /\ callback.at = "pushing"
  /\ deque' = deque \o callback.batch
  /\ callback' = [at |-> "submitting", batch |-> <<>>, left |-> Len(callback.batch)]
  /\ UNCHANGED <<custom, event, works, working>>

SubmitWork ==
  /\ callback.at = "submitting"
  /\ works' = works + 1
  /\ callback' = [callback EXCEPT !.left = @ - 1,
                                  !.at = IF callback.left = 1 THEN "pulling" ELSE @]
  /\ UNCHANGED <<custom, event, deque, working>>

\* A bug: the event is reset before the wait is set again.
MutRearm ==
  /\ callback.at = "rearming"
  /\ callback' = [callback EXCEPT !.at = "waiting"] /\ event' = FALSE
  /\ UNCHANGED <<custom, deque, works, working>>

\* SetThreadpoolWait: an event set in the meantime ends the wait at once.
Rearm ==
  /\ callback.at = "rearming"
  /\ callback' = [callback EXCEPT !.at = "waiting"]
  /\ UNCHANGED <<custom, event, deque, works, working>>

\* DecompressionWork, up to the end of the lock.
StartWork ==
  /\ works > 0 /\ deque # <<>>
  /\ works' = works - 1
  /\ working' = working \cup {Head(deque)} /\ deque' = Tail(deque)
  /\ UNCHANGED <<custom, event, callback>>

\* ASSERT(!g_decompressionRequests.empty())
WorkFindsRequest == works > 0 => deque # <<>>

\* SetRequestResults.
EndWork(r) ==
  /\ r \in working /\ working' = working \ {r}
  /\ UNCHANGED <<custom, event, callback, deque, works>>

\* The requests that have been queued and have no result.
Unpacking ==
  LET Elements(s) == {s[i] : i \in DOMAIN s}
  IN Elements(custom) \cup Elements(callback.batch) \cup Elements(deque) \cup working

LoaderStep ==
  StartCallback \/ GetRequests1 \/ PushBatch \/ SubmitWork \/ Rearm \/ StartWork

===============================================================================
