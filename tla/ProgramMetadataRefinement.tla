----------------------- MODULE ProgramMetadataRefinement -----------------------
(***************************************************************************)
(* The program implements MetadataRegistry.  Entries are the metadata      *)
(* accounts; buffers, lengths, balances and the loader's records are       *)
(* internal to the implementation, and most of its steps stutter.          *)
(***************************************************************************)
EXTENDS ProgramMetadataProperties

Listed == {a \in Pda : IsMetadata(acct[a])}

PublishedContent == (Codec \cup {None}) \X DataSource \X Seq(Byte)

EntryOf(r) == [content |-> Published(r), keeper |-> r.authority, frozen |-> ~r.mutable]

\* The one key that speaks for program p, whether or not it can still sign.
SpeakerOf(p) ==
  CASE prog[p].kind = "live" -> prog[p].upgrade
    [] prog[p].kind = "v2"   -> p
    [] OTHER                 -> None

Registry == INSTANCE MetadataRegistry WITH
  Party   <- Signer,
  Content <- PublishedContent,
  entry   <- [a \in Listed |-> EntryOf(acct[a])],
  speaker <- [p \in Program |-> SpeakerOf(p)]

\* To its users the program is the registry: whatever sequence of instructions, every
\* step publishes, revises, delegates, freezes or withdraws one entry, signed by its
\* owner or keeper, or is invisible.  In particular a buffer becomes metadata at once,
\* SetData replaces codec, source and data together, Extend and Trim do not show, and
\* no update resets a keeper (src/program/src/processor).
ImplementsRegistry == Registry!Spec
===============================================================================
