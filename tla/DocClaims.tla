------------------------------ MODULE DocClaims ------------------------------
(***************************************************************************)
(* What comments of the program say of it and its instructions do not do.  *)
(* Each is a claim as its comment makes it; the run on it is expected to   *)
(* find the behaviour that contradicts it.                                 *)
(***************************************************************************)
EXTENDS MCProgramMetadata

\* "Authority that can update this buffer.  Only for buffer PDA accounts; otherwise
\* `None`." (state/buffer.rs, Buffer::authority.)
KeypairBufferHasNoAuthority ==
  \A a \in BufferKey : IsBuffer(acct[a]) => acct[a].authority = None

\* "Length of the data after the header." (state/header.rs, Header::data_length.)
LengthFieldIsExact ==
  \A a \in Address : IsMetadata(acct[a]) => acct[a].dataLength = Len(acct[a].body)

\* "The following validation checks are performed: `program` account must be
\* executable." (processor/mod.rs, is_program_authority, which Initialize calls.)
MetadataProgramExecutable ==
  [][\A a \in Address :
       ~IsMetadata(acct[a]) /\ IsMetadata(acct'[a]) =>
         Executable(acct'[a].program)]_vars
===============================================================================
