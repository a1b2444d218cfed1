------------------------------ MODULE BatchTag ------------------------------
(***************************************************************************)
(* Tag edits of import items: one commit changes the rows of all items,    *)
(* then the files are written one by one. The request is a stream of       *)
(* events, which gives up control after every file, or one JSON answer,    *)
(* which does not.                                                         *)
(*                                                                         *)
(* The changes are computed from the rows, before the commit; nothing      *)
(* compares a row with its file again.                                     *)
(***************************************************************************)
EXTENDS Naturals, FiniteSets

CONSTANTS
  Item,            \* import items of a library
  Batch,           \* batch updates
  Value,           \* values of a tag a rule can set
  OldValue,        \* the value in the rows and files at first, none of Value
  MaxWriteFaults   \* bound: files that cannot be written, clients that go away

VARIABLES
  itemRow,     \* value of the tag in the row of each item
  itemFile,    \* value of the tag in its file
  gone,        \* items whose row a scan removed
  batch,       \* requests: step, value, items, changes, items still to write
  failedOnce,  \* history: items some batch reported as failed
  overlapped,  \* history: items whose row changed while another stream had their file to write
  writeFaults

batchVars == <<itemRow, itemFile, gone, batch, failedOnce, overlapped, writeFaults>>

BatchPc == {"idle", "commit", "write", "done", "refused", "failed", "cut"}

NoBatch == [pc |-> "idle", sse |-> FALSE, value |-> OldValue, changes |-> {}, todo |-> {},
            yielded |-> TRUE]

Init ==
  /\ itemRow = [i \in Item |-> OldValue]
  /\ itemFile = [i \in Item |-> OldValue]
  /\ gone = {} /\ batch = [b \in Batch |-> NoBatch]
  /\ failedOnce = {} /\ overlapped = {} /\ writeFaults = 0

WriteFault == writeFaults < MaxWriteFaults /\ writeFaults' = writeFaults + 1

\* The handlers share one event loop: one runs until it yields.
LoopFree(b) == \A c \in Batch \ {b} : batch[c].yielded

Pending(b, i) == batch[b].pc = "write" /\ i \in batch[b].changes \cap batch[b].todo

\* batch_update_tags: the items found, their changes and the form of the answer.
Plan(b) ==
  /\ batch[b].pc = "idle" /\ LoopFree(b)
  /\ \E v \in Value, items \in (SUBSET Item) \ {{}}, sse \in BOOLEAN :
       batch' = [batch EXCEPT ![b] =
         [pc |-> "commit", sse |-> sse, value |-> v, todo |-> items,
          changes |-> {i \in items \ gone : itemRow[i] # v}, yielded |-> sse]]
  /\ UNCHANGED <<itemRow, itemFile, gone, failedOnce, overlapped, writeFaults>>

\* Mutant: the rows are changed one by one, each in a transaction of its own.
CommitRowsThatExist(b) ==
  /\ batch[b].pc = "commit" /\ LoopFree(b)
  /\ itemRow' = [i \in Item |-> IF i \in batch[b].changes \ gone THEN batch[b].value ELSE itemRow[i]]
  /\ overlapped' = overlapped \cup {i \in batch[b].changes : \E c \in Batch \ {b} : Pending(c, i)}
  /\ batch' = [batch EXCEPT ![b].pc = IF batch[b].changes \cap gone = {} THEN "write" ELSE "refused",
                            ![b].yielded = (batch[b].changes \cap gone # {})]
  /\ UNCHANGED <<itemFile, gone, failedOnce, writeFaults>>

\* Phase 1, one transaction: a row that is gone makes the UPDATE raise and all
\* rows keep their values.
CommitRows(b) ==
  /\ batch[b].pc = "commit" /\ LoopFree(b)
  /\ IF batch[b].changes \cap gone = {}
     THEN /\ itemRow' = [i \in Item |-> IF i \in batch[b].changes THEN batch[b].value ELSE itemRow[i]]
          /\ overlapped' = overlapped \cup
               {i \in batch[b].changes : \E c \in Batch \ {b} : Pending(c, i)}
          /\ batch' = [batch EXCEPT ![b].pc = "write", ![b].yielded = FALSE]
     ELSE /\ batch' = [batch EXCEPT ![b].pc = "refused", ![b].yielded = TRUE]
          /\ UNCHANGED <<itemRow, overlapped>>
  /\ UNCHANGED <<itemFile, gone, failedOnce, writeFaults>>

\* A stream yields after every item, the JSON answer at its end.
Processed(b, i) ==
  LET todo == batch[b].todo \ {i} IN
  batch' = [batch EXCEPT ![b].todo = todo,
                         ![b].pc = IF todo = {} THEN "done" ELSE "write",
                         ![b].yielded = batch[b].sse \/ todo = {}]

\* Nothing to do for an item without changes; an item without a row when the
\* request came has failed.
PassItem(b, i) ==
  /\ batch[b].pc = "write" /\ LoopFree(b) /\ i \in batch[b].todo \ batch[b].changes
  /\ Processed(b, i)
  /\ failedOnce' = IF i \in gone THEN failedOnce \cup {i} ELSE failedOnce
  /\ UNCHANGED <<itemRow, itemFile, gone, overlapped, writeFaults>>

WriteItem(b, i) ==
  /\ Pending(b, i) /\ LoopFree(b) /\ i \notin gone
  /\ itemFile' = [itemFile EXCEPT ![i] = batch[b].value]
  /\ Processed(b, i)
  /\ UNCHANGED <<itemRow, gone, failedOnce, overlapped, writeFaults>>

\* The row keeps the new value.
WriteItemFails(b, i) ==
  /\ Pending(b, i) /\ LoopFree(b) /\ i \notin gone /\ WriteFault
  /\ Processed(b, i)
  /\ failedOnce' = failedOnce \cup {i}
  /\ UNCHANGED <<itemRow, itemFile, gone, overlapped>>

\* The row is read again after the commit; without it the batch ends, and the
\* rollback has nothing left to take back.
RowGone(b, i) ==
  /\ Pending(b, i) /\ LoopFree(b) /\ i \in gone
  /\ batch' = [batch EXCEPT ![b].pc = "failed", ![b].yielded = TRUE]
  /\ UNCHANGED <<itemRow, itemFile, gone, failedOnce, overlapped, writeFaults>>

\* The client of a stream goes away: the generator ends at a yield.
Cut(b) ==
  /\ batch[b].pc \in {"commit", "write"} /\ batch[b].sse /\ batch[b].yielded /\ WriteFault
  /\ batch' = [batch EXCEPT ![b].pc = "cut"]
  /\ UNCHANGED <<itemRow, itemFile, gone, failedOnce, overlapped>>

\* The file was moved away and a scan forgets the item.
ForgetItem(i) ==
  /\ i \notin gone /\ WriteFault
  /\ gone' = gone \cup {i}
  /\ UNCHANGED <<itemRow, itemFile, batch, failedOnce, overlapped>>

Next ==
  \/ \E b \in Batch :
       \/ Plan(b) \/ CommitRows(b) \/ Cut(b)
       \/ \E i \in Item : PassItem(b, i) \/ WriteItem(b, i) \/ WriteItemFails(b, i) \/ RowGone(b, i)
  \/ \E i \in Item : ForgetItem(i)

Spec == Init /\ [][Next]_batchVars

\* Every variable keeps the type its comment gives.
TypeOK ==
  /\ itemRow \in [Item -> Value \cup {OldValue}] /\ itemFile \in [Item -> Value \cup {OldValue}]
  /\ gone \subseteq Item /\ failedOnce \subseteq Item /\ overlapped \subseteq Item
  /\ batch \in [Batch -> [pc : BatchPc, sse : BOOLEAN, value : Value \cup {OldValue},
                          changes : SUBSET Item, todo : SUBSET Item, yielded : BOOLEAN]]
  /\ writeFaults \in 0 .. MaxWriteFaults

(***************************************************************************)
(* A row and its file never part in silence: when they differ, a batch is  *)
(* at work on the item, or was cut or broke down between its commit and    *)
(* its file, or reported the item as failed, or two streams changed it at  *)
(* once. A batch whose commit fails changes no row at all.                 *)
(***************************************************************************)
DivergenceExplained ==
  \A i \in Item \ gone : itemRow[i] # itemFile[i] =>
    \/ i \in failedOnce \cup overlapped
    \/ \E b \in Batch : /\ batch[b].pc \in {"write", "failed", "cut"}
                        /\ i \in batch[b].changes \cap batch[b].todo

\* What a batch has still to write is what it has put in the row, unless another
\* stream has changed the row since.
BatchInv ==
  /\ TypeOK /\ DivergenceExplained
  /\ \A b \in Batch : batch[b].pc = "commit" => batch[b].changes \subseteq batch[b].todo
  /\ \A b \in Batch, i \in Item :
       Pending(b, i) => itemRow[i] = batch[b].value \/ i \in overlapped

=============================================================================
