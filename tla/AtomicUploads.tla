----------------------------- MODULE AtomicUploads -----------------------------
(***************************************************************************)
(* What a client promises the user who asks it for an upload, without      *)
(* accounts, buffers, plans or transactions: between its beginning and its *)
(* end there is one moment at which the document is at its place, whole,   *)
(* in exchange for what was there.  Until then nothing shows, afterwards   *)
(* nothing more does; an upload that ends well has had that moment, and    *)
(* one that fails or is killed has had it or not.                          *)
(***************************************************************************)
CONSTANT
  Client     \* the runs of the client, each for one request

VARIABLES
  shown,     \* the documents: a function on the places where there is one
  request,   \* per client: its goal, the place and the document
  stage      \* per client: how far it is

vars == <<shown, request, stage>>

Failed == {"rejected", "refused", "crashed"}

Uploading(c) == request[c].goal \in {"create", "update", "write"}

\* A client goes from one of these stages to one of those.
Moves(c, from, to) ==
  /\ stage[c] \in from
  /\ \E s \in to : stage' = [stage EXCEPT ![c] = s]
  /\ UNCHANGED request

Init == stage = [c \in Client |-> "waiting"]

Begin(c) == Moves(c, {"waiting"}, {"running", "rejected"}) /\ UNCHANGED shown

\* The moment of the upload; the client may have more to do, to clean up.
Publish(c) ==
  LET r == request[c]
  IN  /\ Uploading(c)
      /\ r.goal = "create" => r.place \notin DOMAIN shown
      /\ r.goal = "update" => r.place \in DOMAIN shown
      /\ Moves(c, {"running"}, {"published", "done"})
      /\ shown' = [p \in DOMAIN shown \cup {r.place} |->
                     IF p = r.place THEN r.document ELSE shown[p]]

\* Whatever is at the place is removed.
Remove(c) ==
  /\ request[c].goal = "remove"
  /\ Moves(c, {"running"}, {"done"})
  /\ shown' = [p \in DOMAIN shown \ {request[c].place} |-> shown[p]]

Finish(c) ==
  /\ request[c].goal # "remove"
  /\ Moves(c, IF Uploading(c) THEN {"published"} ELSE {"running"}, {"done"})
  /\ UNCHANGED shown

Fail(c) == Moves(c, {"running", "published"}, Failed) /\ UNCHANGED shown

Next == \E c \in Client : Begin(c) \/ Publish(c) \/ Remove(c) \/ Finish(c) \/ Fail(c)

Spec == Init /\ [][Next]_vars
===============================================================================
