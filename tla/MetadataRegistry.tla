---------------------------- MODULE MetadataRegistry ----------------------------
(***************************************************************************)
(* What the program promises its users, without accounts, buffers, lengths *)
(* or lamports: a registry of documents about programs.  An official slot  *)
(* belongs to whoever speaks for the program, a third-party slot to the    *)
(* party it names.  An entry has a keeper beside the owner of its slot,    *)
(* until it is frozen or withdrawn.                                        *)
(***************************************************************************)
CONSTANTS
  Program,
  Party,     \* who can sign
  Seed,      \* the kinds of documents
  Content,
  None

VARIABLES
  entry,     \* the entry of each slot in use: its domain is the set of those slots
  speaker    \* who speaks for each program: a party, or nobody

vars == <<entry, speaker>>

OfficialSlot == Program \X Seed
ThirdPartySlot == Program \X Party \X Seed
Slot == OfficialSlot \cup ThirdPartySlot

\* The entries with one of these contents and one of these keepers.
Entry(contents, keepers, frozen) ==
  [content : contents, keeper : keepers, frozen : {frozen}]

\* Nobody speaks for a program as None: a party does.
MayPublish(who, slot) ==
  who = IF slot \in OfficialSlot THEN speaker[slot[1]] ELSE slot[2]

Controls(who, slot) ==
  /\ ~entry[slot].frozen
  /\ \/ entry[slot].keeper = who
     \/ slot \in OfficialSlot /\ speaker[slot[1]] = who

Init ==
  /\ entry = [slot \in {} |-> None]
  /\ speaker \in [Program -> Party \cup Program \cup {None}]

\* Only the entry of this slot changes.
OnlyAt(slot) ==
  /\ \A other \in Slot \ {slot} :
       /\ other \in DOMAIN entry' <=> other \in DOMAIN entry
       /\ other \in DOMAIN entry => entry'[other] = entry[other]
  /\ UNCHANGED speaker

Publish(who, slot) ==
  /\ slot \notin DOMAIN entry
  /\ MayPublish(who, slot)
  /\ slot \in DOMAIN entry'
  /\ entry'[slot] \in
       Entry(Content, {IF slot \in OfficialSlot THEN None ELSE who}, FALSE)
  /\ OnlyAt(slot)

Withdraw(who, slot) ==
  /\ slot \in DOMAIN entry
  /\ Controls(who, slot)
  /\ slot \notin DOMAIN entry'
  /\ OnlyAt(slot)

\* The entry stays, and becomes one of these.
Amend(who, slot, entries) ==
  /\ slot \in DOMAIN entry
  /\ Controls(who, slot)
  /\ slot \in DOMAIN entry'
  /\ entry'[slot] \in entries
  /\ OnlyAt(slot)

Revise(who, slot) == Amend(who, slot, Entry(Content, {entry[slot].keeper}, FALSE))

Delegate(who, slot) ==
  /\ slot \in OfficialSlot
  /\ Amend(who, slot, Entry({entry[slot].content}, Party \cup {None}, FALSE))

Freeze(who, slot) ==
  Amend(who, slot, Entry({entry[slot].content}, {entry[slot].keeper}, TRUE))

\* Another party speaks for the program; nobody's entry changes.
Succeed(p) ==
  /\ UNCHANGED entry
  /\ \E who \in Party \cup {None} : speaker' = [speaker EXCEPT ![p] = who]

Next ==
  \/ \E who \in Party, slot \in Slot :
       \/ Publish(who, slot)
       \/ Withdraw(who, slot)
       \/ Revise(who, slot)
       \/ Delegate(who, slot)
       \/ Freeze(who, slot)
  \/ \E p \in Program : Succeed(p)

Spec == Init /\ [][Next]_vars
===============================================================================
