------------------------------- MODULE Entrypoint -------------------------------
(***************************************************************************)
(* How the program reads an instruction: which handler its first byte      *)
(* selects, what the handler takes from the remaining data and from which  *)
(* place in the accounts, and what the runtime demands of the metas.       *)
(*                                                                         *)
(* A handler that accepts the instruction does what its action in          *)
(* ProgramMetadata does; only the outcome of a successful instruction is a *)
(* step here, too.                                                         *)
(***************************************************************************)
EXTENDS ProgramMetadata, Instructions

CONSTANTS
  ProgramData    \* the address of each program's program data account

ASSUME SpecialAccounts ==
  /\ Id \notin Address \cup Program \cup {SystemId, RentId}
  /\ SystemId # RentId
  /\ \A p \in Program : ProgramData[p] # Id

-----------------------------------------------------------------------------
(* Accounts of an instruction.  An account named twice has the privileges  *)
(* of both metas.                                                          *)

Account(ix, i) == ix.accounts[i].key

IsSigner(ix, a) == \E i \in DOMAIN ix.accounts : ix.accounts[i].key = a /\ ix.accounts[i].signer

IsWritable(ix, a) ==
  \E i \in DOMAIN ix.accounts : ix.accounts[i].key = a /\ ix.accounts[i].writable

\* The account at place i is one whose contents this instruction may change.
Changeable(ix, i) == Account(ix, i) \in Address /\ IsWritable(ix, Account(ix, i))

\* A handler calls the system program to create an account or to have it assigned.
SystemCallable(ix, r) ==
  r.owner = "system" => \E i \in DOMAIN ix.accounts : Account(ix, i) = SystemId

\* is_program_authority with the accounts the instruction names.
NamedProgramAuthority(p, programData, k) ==
  IF programData = Id THEN IsProgramAuthority(p, FALSE, k)
  ELSE IF ~Upgradeable(p) \/ programData = ProgramData[p]
       THEN IsProgramAuthority(p, TRUE, k) ELSE {}

\* validate_authority with the accounts the instruction names.
Authorized(ix, r, k, program, programData) ==
  /\ IsSigner(ix, k)
  /\ \/ r.authority = k
     \/ /\ r.canonical /\ r.program = program /\ program \in Program
        /\ TRUE \in NamedProgramAuthority(program, programData, k)

-----------------------------------------------------------------------------
(* The handlers.                                                           *)

\* Mutant of HandleWrite: bytes and a source account may both be given.
HandleWriteEither(ix) ==
  LET k == Account(ix, 2)
  IN  /\ Len(ix.accounts) >= 3
      /\ Len(ix.args) = 1
      /\ Changeable(ix, 1)
      /\ IsSigner(ix, k)
      /\ \/ ix.rest # <<>> /\ WriteData(k, Account(ix, 1), ix.args[1], ix.rest)
         \/ /\ ix.rest = <<>> /\ Account(ix, 3) \in Address
            /\ WriteFromBuffer(k, Account(ix, 1), ix.args[1], Account(ix, 3))

\* Bytes in the instruction, or an account to copy from, and not both.
HandleWrite(ix) ==
  LET k == Account(ix, 2)
  IN  /\ Len(ix.accounts) >= 3
      /\ Len(ix.args) = 1
      /\ Changeable(ix, 1)
      /\ IsSigner(ix, k)
      /\ \/ /\ ix.rest # <<>> /\ Account(ix, 3) = Id
            /\ WriteData(k, Account(ix, 1), ix.args[1], ix.rest)
         \/ /\ ix.rest = <<>> /\ Account(ix, 3) \in Address
            /\ WriteFromBuffer(k, Account(ix, 1), ix.args[1], Account(ix, 3))

\* The PDA is derived from the program and the seed, or from the authority as well.
HandleInitialize(ix) ==
  LET k == Account(ix, 2)
      p == Account(ix, 3)
  IN  /\ Len(ix.accounts) >= 5
      /\ Len(ix.args) = 3
      /\ Changeable(ix, 1)
      /\ IsSigner(ix, k)
      /\ p \in Program
      /\ \E canonical \in NamedProgramAuthority(p, Account(ix, 4), k) :
           Account(ix, 1) = DerivedPda(canonical, p, k, ix.args[1])
      /\ SystemCallable(ix, acct[Account(ix, 1)])
      /\ Initialize(k, p, ix.args[1], Account(ix, 4) # Id,
                    ix.args[2], ix.args[3], ix.rest)

\* The option's byte 0 removes the authority; any other has to be followed by an address.
HandleSetAuthority(ix) ==
  LET a   == Account(ix, 1)
      k   == Account(ix, 2)
      new == IF ix.args[1] = 0 THEN None ELSE ix.args[2]
  IN  /\ Len(ix.accounts) = 4
      /\ Len(ix.args) >= 1
      /\ ix.args[1] # 0 => Len(ix.args) = 2 /\ ix.args[2] # None
      /\ Changeable(ix, 1)
      /\ Authorized(ix, acct[a], k, Account(ix, 3), Account(ix, 4))
      /\ SetBufferAuthority(k, a, new) \/ SetMetadataAuthority(k, a, new)

\* The codec alone; or a data source, with bytes in the instruction or a buffer.
HandleSetData(ix) ==
  LET m == Account(ix, 1)
      k == Account(ix, 2)
      b == Account(ix, 3)
  IN  /\ Len(ix.accounts) >= 5
      /\ Len(ix.args) >= 1
      /\ Changeable(ix, 1)
      /\ Authorized(ix, acct[m], k, Account(ix, 4), Account(ix, 5))
      /\ \/ Len(ix.args) = 1 /\ b = Id /\ SetCodec(k, m, ix.args[1])
         \/ /\ Len(ix.args) = 2 /\ ix.rest # <<>> /\ b = Id
            /\ SetData(k, m, ix.args[1], ix.args[2], ix.rest)
         \/ /\ Len(ix.args) = 2 /\ ix.rest = <<>> /\ b \in Address
            /\ SetDataFromBuffer(k, m, ix.args[1], ix.args[2], b)

HandleSetImmutable(ix) ==
  /\ Len(ix.accounts) = 4
  /\ Changeable(ix, 1)
  /\ Authorized(ix, acct[Account(ix, 1)], Account(ix, 2), Account(ix, 3), Account(ix, 4))
  /\ SetImmutable(Account(ix, 2), Account(ix, 1))

HandleTrim(ix) ==
  /\ Len(ix.accounts) = 6
  /\ Changeable(ix, 1)
  /\ Authorized(ix, acct[Account(ix, 1)], Account(ix, 2), Account(ix, 3), Account(ix, 4))
  /\ Changeable(ix, 5)
  /\ Account(ix, 6) = RentId
  /\ Trim(Account(ix, 2), Account(ix, 1), Account(ix, 5))

HandleClose(ix) ==
  /\ Len(ix.accounts) = 5
  /\ Changeable(ix, 1)
  /\ Authorized(ix, acct[Account(ix, 1)], Account(ix, 2), Account(ix, 3), Account(ix, 4))
  /\ Changeable(ix, 5)
  /\ Close(Account(ix, 2), Account(ix, 1), Account(ix, 5))

\* A buffer that is its own authority, without a seed; or a PDA of an executable program.
HandleAllocate(ix) ==
  LET b == Account(ix, 1)
      k == Account(ix, 2)
      p == Account(ix, 3)
  IN  /\ Len(ix.accounts) >= 5
      /\ Changeable(ix, 1)
      /\ IsSigner(ix, k)
      /\ SystemCallable(ix, acct[b])
      /\ \/ b = k /\ ix.args = <<>> /\ AllocateKeypair(k)
         \/ /\ b # k /\ Len(ix.args) = 1 /\ p \in Program
            /\ \E canonical \in NamedProgramAuthority(p, Account(ix, 4), k) :
                 b = DerivedPda(canonical, p, k, ix.args[1])
            /\ AllocatePda(k, p, ix.args[1], Account(ix, 4) # Id)

HandleExtend(ix) ==
  /\ Len(ix.accounts) >= 4
  /\ Len(ix.args) = 1
  /\ Changeable(ix, 1)
  /\ Authorized(ix, acct[Account(ix, 1)], Account(ix, 2), Account(ix, 3), Account(ix, 4))
  /\ Extend(Account(ix, 2), Account(ix, 1), ix.args[1])

\* process_instruction.
ProcessInstruction(ix) ==
  \/ ix.tag = 0 /\ HandleWrite(ix)
  \/ ix.tag = 1 /\ HandleInitialize(ix)
  \/ ix.tag = 2 /\ HandleSetAuthority(ix)
  \/ ix.tag = 3 /\ HandleSetData(ix)
  \/ ix.tag = 4 /\ HandleSetImmutable(ix)
  \/ ix.tag = 5 /\ HandleTrim(ix)
  \/ ix.tag = 6 /\ HandleClose(ix)
  \/ ix.tag = 7 /\ HandleAllocate(ix)
  \/ ix.tag = 8 /\ HandleExtend(ix)

\* The keys the metas demand a signature of can give one.
Signable(ix) == \A i \in DOMAIN ix.accounts : ix.accounts[i].signer => Account(ix, i) \in Signer
===============================================================================
