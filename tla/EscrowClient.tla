----------------------------- MODULE EscrowClient -----------------------------
(***************************************************************************)
(* The client of the escrow program that Codama generated                  *)
(* (src/common/program/generated): how an instruction is built, encoded,   *)
(* identified and parsed, and how the program's accounts are encoded.      *)
(*                                                                         *)
(* The code lists the fields of an instruction twice, for the encoder and  *)
(* for the decoder, its accounts twice, for the builder and for the        *)
(* parser, and its discriminator twice, where it is encoded and where it   *)
(* is identified.  So does this module: that the lists agree is proved.    *)
(*                                                                         *)
(* A byte is <<v, i>>, the i-th byte of the value v, so that a decoder     *)
(* that reads at another offset, or another width, than the encoder wrote  *)
(* gets no value.  A derived address is the record of its program and      *)
(* seeds: derivation has no collisions.                                    *)
(***************************************************************************)
EXTENDS Naturals, Sequences, SequencesExt

CONSTANTS
  Program,        \* ARCADIUM_ESCROW_PROGRAM_ADDRESS
  TokenProgram,   \* TokenkegQfeZyiNwAJbNbGKPFXCWuBvf9Ss623VQ5DA
  SystemProgram,  \* 11111111111111111111111111111111
  AtaProgram,     \* ATokenGPvbdGVxr1b2hvZbsiqW5xWH25efTNsLJA8knL
  NoAddress,      \* null
  Garbled         \* what a decoder makes of bytes that are not one value

-----------------------------------------------------------------------------
(* Addresses *)

Pda(program, seeds) == [program |-> program, seeds |-> seeds]

ConfigPda == Pda(Program, <<"config">>)
EscrowVaultStatePda(client, jobId) == Pda(Program, <<"escrow", client, jobId>>)
EscrowVaultPda(vaultState) == Pda(Program, <<"escrow-token", vaultState>>)
AssociatedTokenPda(wallet, mint) == Pda(AtaProgram, <<wallet, TokenProgram, mint>>)

-----------------------------------------------------------------------------
(* Codecs.  A layout is the sequence of the fields that an encoder writes,  *)
(* or a decoder reads, behind the eight bytes of the discriminator.         *)

Fixed(name, size)    == [name |-> name, size |-> size, variants |-> <<>>, optional |-> FALSE]
Enum(name, variants) == [name |-> name, size |-> 1, variants |-> variants, optional |-> FALSE]
OptionOf(name, size) == [name |-> name, size |-> size, variants |-> <<>>, optional |-> TRUE]

JobType     == <<"Gig", "Bounty">>
JobStatus   == <<"Active", "Fulfilled", "UnFulfilled">>
EscrowState == <<"Funded", "Released", "Refunded", "Disputed">>

Bytes(v, n) == [i \in 1..n |-> <<v, i>>]

\* The value of the n bytes that follow the first `at` of data.
ValueAt(data, at, n) ==
  IF /\ at + n <= Len(data)
     /\ SubSeq(data, at + 1, at + n) = Bytes(data[at + 1][1], n)
    THEN data[at + 1][1]
    ELSE Garbled

EncodeField(f, v) ==
  IF f.variants # <<>>
    THEN Bytes((CHOOSE i \in DOMAIN f.variants : f.variants[i] = v) - 1, 1)
    ELSE IF ~f.optional THEN Bytes(v, f.size)
    ELSE IF v = NoAddress THEN Bytes(0, 1)
    ELSE Bytes(1, 1) \o Bytes(v, f.size)

Encode(discriminator, layout, args) ==
  discriminator \o
    FlattenSeq([i \in DOMAIN layout |-> EncodeField(layout[i], args[layout[i].name])])

IsNone(f, data, at) == f.optional /\ ValueAt(data, at, 1) = 0

\* How many bytes of data a field takes that begins after the first `at`.
WidthAt(f, data, at) ==
  IF ~f.optional THEN f.size ELSE IF IsNone(f, data, at) THEN 1 ELSE 1 + f.size

DecodeField(f, data, at) ==
  IF f.variants # <<>> THEN f.variants[ValueAt(data, at, 1) + 1]
    ELSE IF ~f.optional THEN ValueAt(data, at, f.size)
    ELSE IF IsNone(f, data, at) THEN NoAddress
    ELSE ValueAt(data, at + 1, f.size)

Decode(layout, data) ==
  LET at[i \in 1..Len(layout)] ==
        IF i = 1 THEN 8 ELSE at[i - 1] + WidthAt(layout[i - 1], data, at[i - 1])
      Position(name) == CHOOSE i \in DOMAIN layout : layout[i].name = name
  IN  [name \in {layout[i].name : i \in DOMAIN layout} |->
         DecodeField(layout[Position(name)], data, at[Position(name)])]

-----------------------------------------------------------------------------
(* Instructions *)

SignerW(name)  == [name |-> name, signer |-> TRUE, writable |-> TRUE]
Writable(name) == [name |-> name, signer |-> FALSE, writable |-> TRUE]
Readonly(name) == [name |-> name, signer |-> FALSE, writable |-> FALSE]

\* An input the caller left out gets its default.
Default(in, name, value) ==
  [n \in DOMAIN in \cup {name} |-> IF n \in DOMAIN in THEN in[n] ELSE value]

Discriminator ==
  [createEscrow   |-> <<253, 215, 165, 116, 36, 108, 68, 80>>,
   initialize     |-> <<175, 175, 109, 31, 13, 152, 155, 237>>,
   markDisputed   |-> <<136, 86, 152, 120, 3, 21, 223, 251>>,
   resolveDispute |-> <<231, 6, 202, 6, 96, 103, 12, 230>>,
   setPaused      |-> <<91, 60, 125, 192, 176, 225, 166, 218>>,
   settleEscrow   |-> <<22, 135, 160, 194, 23, 186, 124, 110>>,
   updateEscrow   |-> <<252, 228, 127, 1, 60, 43, 54, 28>>]

\* `accounts` and `encoder` are the lists of the builder.  Each instruction has
\* two builders, with and without Async; their lists are the same.
Instruction(name, accounts, encoder, in) ==
  [programAddress |-> Program,
   accounts |-> [i \in DOMAIN accounts |->
                   [address  |-> in[accounts[i].name],
                    signer   |-> accounts[i].signer,
                    writable |-> accounts[i].writable]],
   data |-> Encode(Discriminator[name], encoder, in)]

\* `names` and `decoder` are the lists of the parser, which takes the accounts in
\* their order and refuses fewer than `least` (INSUFFICIENT_ACCOUNT_METAS).
Parsed(name, least, names, decoder, ix) ==
  IF Len(ix.accounts) < least THEN [instructionType |-> "refused"]
  ELSE LET Position(n) == CHOOSE i \in DOMAIN names : names[i] = n
       IN  [instructionType |-> name,
            accounts |-> [n \in {names[i] : i \in DOMAIN names} |->
                            ix.accounts[Position(n)].address],
            data |-> Decode(decoder, ix.data)]

(* create_escrow *)

CreateEscrowAccounts ==
  <<SignerW("client"), Readonly("config"), Writable("escrowVaultState"),
    Writable("escrowVault"), Readonly("tokenMint"), Writable("clientTokenAccount"),
    Readonly("tokenProgram"), Readonly("systemProgram")>>

CreateEscrowEncoder ==
  <<Fixed("jobId", 16), Enum("jobType", JobType), Fixed("amount", 8), Fixed("expiry", 8)>>

GetCreateEscrowInstruction(in) ==
  LET t == Default(in, "tokenProgram", TokenProgram)
      s == Default(t, "systemProgram", SystemProgram)
  IN  Instruction("createEscrow", CreateEscrowAccounts, CreateEscrowEncoder, s)

GetCreateEscrowInstructionAsync(in) ==
  LET c == Default(in, "config", ConfigPda)
      s == Default(c, "escrowVaultState", EscrowVaultStatePda(c.client, c.jobId))
      v == Default(s, "escrowVault", EscrowVaultPda(s.escrowVaultState))
      a == Default(v, "clientTokenAccount", AssociatedTokenPda(v.client, v.tokenMint))
  IN  GetCreateEscrowInstruction(a)

\* Variant: the decoder has the amount and the expiry in the other order.
CreateEscrowDecoderSwapped ==
  <<Fixed("jobId", 16), Enum("jobType", JobType), Fixed("expiry", 8), Fixed("amount", 8)>>

CreateEscrowDecoder ==
  <<Fixed("jobId", 16), Enum("jobType", JobType), Fixed("amount", 8), Fixed("expiry", 8)>>

CreateEscrowParsed ==
  <<"client", "config", "escrowVaultState", "escrowVault", "tokenMint",
    "clientTokenAccount", "tokenProgram", "systemProgram">>

ParseCreateEscrowInstruction(ix) ==
  Parsed("createEscrow", 8, CreateEscrowParsed, CreateEscrowDecoder, ix)

(* settle_escrow *)

SettleEscrowAccounts ==
  <<SignerW("client"), Readonly("config"), Writable("escrowVaultState"),
    Writable("escrowVault"), Writable("recipientTokenAccount"),
    Writable("treasuryTokenAccount"), Readonly("tokenMint"), Readonly("tokenProgram")>>

SettleEscrowEncoder == <<Fixed("jobId", 16)>>

GetSettleEscrowInstruction(in) ==
  Instruction("settleEscrow", SettleEscrowAccounts, SettleEscrowEncoder,
              Default(in, "tokenProgram", TokenProgram))

GetSettleEscrowInstructionAsync(in) ==
  LET c == Default(in, "config", ConfigPda)
      s == Default(c, "escrowVaultState", EscrowVaultStatePda(c.client, c.jobId))
      v == Default(s, "escrowVault", EscrowVaultPda(s.escrowVaultState))
  IN  GetSettleEscrowInstruction(v)

SettleEscrowDecoder == <<Fixed("jobId", 16)>>

SettleEscrowParsed ==
  <<"client", "config", "escrowVaultState", "escrowVault", "recipientTokenAccount",
    "treasuryTokenAccount", "tokenMint", "tokenProgram">>

ParseSettleEscrowInstruction(ix) ==
  Parsed("settleEscrow", 8, SettleEscrowParsed, SettleEscrowDecoder, ix)

(* update_escrow: the client of the job does not sign it *)

UpdateEscrowAccounts ==
  <<SignerW("authority"), Writable("client"), Readonly("config"),
    Writable("escrowVaultState")>>

UpdateEscrowEncoder ==
  <<Fixed("jobId", 16), Fixed("fulfilled", 1), OptionOf("agentOwner", 32)>>

GetUpdateEscrowInstruction(in) ==
  Instruction("updateEscrow", UpdateEscrowAccounts, UpdateEscrowEncoder, in)

GetUpdateEscrowInstructionAsync(in) ==
  LET c == Default(in, "config", ConfigPda)
      s == Default(c, "escrowVaultState", EscrowVaultStatePda(c.client, c.jobId))
  IN  GetUpdateEscrowInstruction(s)

UpdateEscrowDecoder ==
  <<Fixed("jobId", 16), Fixed("fulfilled", 1), OptionOf("agentOwner", 32)>>

UpdateEscrowParsed == <<"authority", "client", "config", "escrowVaultState">>

ParseUpdateEscrowInstruction(ix) ==
  Parsed("updateEscrow", 4, UpdateEscrowParsed, UpdateEscrowDecoder, ix)

(* mark_disputed *)

MarkDisputedAccounts ==
  <<SignerW("client"), Readonly("config"), Writable("escrowVaultState")>>

MarkDisputedEncoder == <<Fixed("jobId", 16)>>

GetMarkDisputedInstruction(in) ==
  Instruction("markDisputed", MarkDisputedAccounts, MarkDisputedEncoder, in)

GetMarkDisputedInstructionAsync(in) ==
  LET c == Default(in, "config", ConfigPda)
      s == Default(c, "escrowVaultState", EscrowVaultStatePda(c.client, c.jobId))
  IN  GetMarkDisputedInstruction(s)

MarkDisputedDecoder == <<Fixed("jobId", 16)>>

MarkDisputedParsed == <<"client", "config", "escrowVaultState">>

ParseMarkDisputedInstruction(ix) ==
  Parsed("markDisputed", 3, MarkDisputedParsed, MarkDisputedDecoder, ix)

(* resolve_dispute *)

ResolveDisputeAccounts ==
  <<SignerW("authority"), Readonly("config"), Writable("escrowVaultState"),
    Writable("escrowVault"), Readonly("tokenMint"), Writable("clientTokenAccount"),
    Writable("client"), Readonly("tokenProgram")>>

ResolveDisputeEncoder == <<Fixed("jobId", 16)>>

GetResolveDisputeInstruction(in) ==
  Instruction("resolveDispute", ResolveDisputeAccounts, ResolveDisputeEncoder,
              Default(in, "tokenProgram", TokenProgram))

GetResolveDisputeInstructionAsync(in) ==
  LET c == Default(in, "config", ConfigPda)
      s == Default(c, "escrowVaultState", EscrowVaultStatePda(c.client, c.jobId))
      v == Default(s, "escrowVault", EscrowVaultPda(s.escrowVaultState))
      a == Default(v, "clientTokenAccount", AssociatedTokenPda(v.client, v.tokenMint))
  IN  GetResolveDisputeInstruction(a)

ResolveDisputeDecoder == <<Fixed("jobId", 16)>>

ResolveDisputeParsed ==
  <<"authority", "config", "escrowVaultState", "escrowVault", "tokenMint",
    "clientTokenAccount", "client", "tokenProgram">>

ParseResolveDisputeInstruction(ix) ==
  Parsed("resolveDispute", 8, ResolveDisputeParsed, ResolveDisputeDecoder, ix)

(* initialize *)

InitializeAccounts ==
  <<SignerW("authority"), Writable("config"), Readonly("systemProgram")>>

InitializeEncoder ==
  <<Fixed("platformFeeBps", 2), Fixed("emergencyAdmin", 32), Fixed("treasury", 32),
    Fixed("tokenMint", 32)>>

GetInitializeInstruction(in) ==
  Instruction("initialize", InitializeAccounts, InitializeEncoder,
              Default(in, "systemProgram", SystemProgram))

GetInitializeInstructionAsync(in) ==
  GetInitializeInstruction(Default(in, "config", ConfigPda))

InitializeDecoder ==
  <<Fixed("platformFeeBps", 2), Fixed("emergencyAdmin", 32), Fixed("treasury", 32),
    Fixed("tokenMint", 32)>>

InitializeParsed == <<"authority", "config", "systemProgram">>

ParseInitializeInstruction(ix) ==
  Parsed("initialize", 3, InitializeParsed, InitializeDecoder, ix)

(* set_paused *)

SetPausedAccounts == <<SignerW("emergencyAdmin"), Writable("config")>>

SetPausedEncoder == <<Fixed("paused", 1)>>

GetSetPausedInstruction(in) ==
  Instruction("setPaused", SetPausedAccounts, SetPausedEncoder, in)

GetSetPausedInstructionAsync(in) ==
  GetSetPausedInstruction(Default(in, "config", ConfigPda))

SetPausedDecoder == <<Fixed("paused", 1)>>

SetPausedParsed == <<"emergencyAdmin", "config">>

ParseSetPausedInstruction(ix) ==
  Parsed("setPaused", 2, SetPausedParsed, SetPausedDecoder, ix)

-----------------------------------------------------------------------------
(* The program client: instructions by name, and their identification *)

GetInstructionAsync(name, in) ==
  CASE name = "createEscrow"   -> GetCreateEscrowInstructionAsync(in)
    [] name = "initialize"     -> GetInitializeInstructionAsync(in)
    [] name = "markDisputed"   -> GetMarkDisputedInstructionAsync(in)
    [] name = "resolveDispute" -> GetResolveDisputeInstructionAsync(in)
    [] name = "setPaused"      -> GetSetPausedInstructionAsync(in)
    [] name = "settleEscrow"   -> GetSettleEscrowInstructionAsync(in)
    [] name = "updateEscrow"   -> GetUpdateEscrowInstructionAsync(in)

IdentifiedBy ==
  [createEscrow   |-> <<253, 215, 165, 116, 36, 108, 68, 80>>,
   initialize     |-> <<175, 175, 109, 31, 13, 152, 155, 237>>,
   markDisputed   |-> <<136, 86, 152, 120, 3, 21, 223, 251>>,
   resolveDispute |-> <<231, 6, 202, 6, 96, 103, 12, 230>>,
   setPaused      |-> <<91, 60, 125, 192, 176, 225, 166, 218>>,
   settleEscrow   |-> <<22, 135, 160, 194, 23, 186, 124, 110>>,
   updateEscrow   |-> <<252, 228, 127, 1, 60, 43, 54, 28>>]

IdentifyArcadiumEscrowInstruction(data) ==
  CHOOSE name \in DOMAIN IdentifiedBy : SubSeq(data, 1, 8) = IdentifiedBy[name]

ParseArcadiumEscrowInstruction(ix) ==
  LET name == IdentifyArcadiumEscrowInstruction(ix.data)
  IN  CASE name = "createEscrow"   -> ParseCreateEscrowInstruction(ix)
        [] name = "initialize"     -> ParseInitializeInstruction(ix)
        [] name = "markDisputed"   -> ParseMarkDisputedInstruction(ix)
        [] name = "resolveDispute" -> ParseResolveDisputeInstruction(ix)
        [] name = "setPaused"      -> ParseSetPausedInstruction(ix)
        [] name = "settleEscrow"   -> ParseSettleEscrowInstruction(ix)
        [] name = "updateEscrow"   -> ParseUpdateEscrowInstruction(ix)

-----------------------------------------------------------------------------
(* Accounts.  The program allocates the full size of an EscrowVault: behind  *)
(* a fulfilledAt of none there are zeroes.                                   *)

AccountDiscriminator ==
  [arcadiumConfig |-> <<196, 82, 18, 151, 31, 45, 161, 254>>,
   escrowVault    |-> <<54, 84, 41, 149, 160, 181, 85, 114>>]

EscrowVaultEncoder ==
  <<Fixed("jobId", 16), Enum("jobType", JobType), Enum("jobStatus", JobStatus),
    Fixed("client", 32), Fixed("agentOwner", 32), Fixed("amount", 8),
    Enum("state", EscrowState), Fixed("createdAt", 8), Fixed("expiry", 8),
    OptionOf("fulfilledAt", 8), Fixed("platformFeeBps", 2), Fixed("bump", 1)>>

EscrowVaultDecoder ==
  <<Fixed("jobId", 16), Enum("jobType", JobType), Enum("jobStatus", JobStatus),
    Fixed("client", 32), Fixed("agentOwner", 32), Fixed("amount", 8),
    Enum("state", EscrowState), Fixed("createdAt", 8), Fixed("expiry", 8),
    OptionOf("fulfilledAt", 8), Fixed("platformFeeBps", 2), Fixed("bump", 1)>>

ArcadiumConfigEncoder ==
  <<Fixed("platformFeeBps", 2), Fixed("authority", 32), Fixed("emergencyAdmin", 32),
    Fixed("treasury", 32), Fixed("tokenMint", 32), Fixed("paused", 1), Fixed("bump", 1)>>

ArcadiumConfigDecoder ==
  <<Fixed("platformFeeBps", 2), Fixed("authority", 32), Fixed("emergencyAdmin", 32),
    Fixed("treasury", 32), Fixed("tokenMint", 32), Fixed("paused", 1), Fixed("bump", 1)>>

ArcadiumConfigSize == 140

AccountIdentifiedBy ==
  [arcadiumConfig |-> <<196, 82, 18, 151, 31, 45, 161, 254>>,
   escrowVault    |-> <<54, 84, 41, 149, 160, 181, 85, 114>>]

IdentifyArcadiumEscrowAccount(data) ==
  CHOOSE name \in DOMAIN AccountIdentifiedBy :
    SubSeq(data, 1, 8) = AccountIdentifiedBy[name]

\* fetchMaybeEscrowVault: of the account at an address, or of none.
FetchMaybeEscrowVault(accountAt, address) ==
  IF address \in DOMAIN accountAt
    THEN Decode(EscrowVaultDecoder, accountAt[address])
    ELSE NoAddress

FetchMaybeArcadiumConfig(accountAt, address) ==
  IF address \in DOMAIN accountAt
    THEN Decode(ArcadiumConfigDecoder, accountAt[address])
    ELSE NoAddress
==============================================================================
