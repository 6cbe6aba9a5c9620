--------------------------- MODULE TemplatePatcher ---------------------------
(***************************************************************************)
(* The template patcher of the covenant library: the contract is compiled  *)
(* once with placeholder arguments, and a channel's own arguments are      *)
(* written over every place where the placeholders' bytes occur.           *)
(*                                                                         *)
(* Nobody recompiles the contract for a channel, so client and facilitator *)
(* rely on the patched script being the one the compiler would have        *)
(* produced: the channel's address is its hash, and the contract reads its *)
(* timeout and nonce out of it.  Bytes are 0 .. Base - 1, so that a small  *)
(* instance meets every boundary of the encodings.                         *)
(***************************************************************************)
EXTENDS Integers, Sequences, FiniteSets, SequencesExt

CONSTANTS
    Base,       \* 256: values of a byte
    Width,      \* 8: bytes of an integer field
    SmallMax,   \* 16: the largest integer with an opcode of its own
    Keys,       \* client keys, as byte sequences of one length
    Ints,       \* integers a channel may be given
    Templates,  \* arguments a template is compiled with
    Bodies,     \* opcodes that follow the parameters
    Failed      \* an exception

\* Client keys are x-only public keys: the placeholder is as long as any other.
ASSUME PatcherAssumption ==
    /\ Base \in Nat /\ Base % 2 = 0 /\ Base > 0 /\ Width \in Nat \ {0}
    /\ SmallMax \in Nat /\ Ints \subseteq Int
    /\ Keys \subseteq Seq(Int) /\ Bodies \subseteq Seq(Int)
    /\ Templates \subseteq [client : Seq(Int), initTimeout : Int, initNonce : Int]
    /\ \A t \in Templates, key \in Keys : Len(key) = Len(t.client)
    /\ Failed \notin Seq(Int)

VARIABLES
    fields,         \* integer parameters that initialise a field of the contract
    body,           \* the rest of the script
    placeholders,   \* the arguments of the ctor.json file
    template,       \* the script compiled with them
    descriptor,     \* where they occur in it
    args,           \* the arguments of the last channel patched
    script          \* what applyPatch returned, Failed if it threw

vars == << fields, body, placeholders, template, descriptor, args, script >>

Params == << "client", "initTimeout", "initNonce" >>
IntParams == {"initTimeout", "initNonce"}

-----------------------------------------------------------------------------
(* Encodings.                                                              *)

SignBit == Base \div 2

AbsValue(value) == IF value < 0 THEN -value ELSE value

Power[k \in Nat] == IF k = 0 THEN 1 ELSE Base * Power[k - 1]

\* A template is compiled with integers that fit a field.
ASSUME TemplatesFit ==
    \A t \in Templates, param \in IntParams : AbsValue(t[param]) < Power[Width]

\* The size lowest digits, least significant first.
Digits(value, size) == [i \in 1 .. size |-> (value \div Power[i - 1]) % Base]

\* Sets the top bit of the last byte.
WithSign(bytes) ==
    [i \in DOMAIN bytes |-> IF i = Len(bytes) /\ bytes[i] < SignBit
                            THEN bytes[i] + SignBit ELSE bytes[i]]

\* Bytes of a positive integer without leading zeros.
Minimal(value) ==
    LET size == CHOOSE n \in 1 .. value : Power[n - 1] <= value /\ value < Power[n]
    IN  Digits(value, size)

\* Mutant: the bytes in the order a reader would write them.
EncodeFixedInt_BigEndian(value, size) ==
    LET bytes == Reverse(Digits(AbsValue(value), size))
    IN  IF AbsValue(value) >= Power[size] THEN Failed
        ELSE IF value < 0 THEN WithSign(bytes) ELSE bytes

\* Mutant: the bytes are not filled up to the width of a field.
EncodeFixedInt_Unpadded(value, size) ==
    LET bytes == IF value = 0 THEN << 0 >> ELSE Minimal(AbsValue(value))
    IN  IF AbsValue(value) >= Power[size] THEN Failed
        ELSE IF value < 0 THEN WithSign(bytes) ELSE bytes

EncodeFixedInt(value, size) ==
    LET bytes == Digits(AbsValue(value), size)
    IN  IF AbsValue(value) >= Power[size] THEN Failed
        ELSE IF value < 0 THEN WithSign(bytes) ELSE bytes

EncodeScriptInt(value) ==
    LET bytes == Minimal(AbsValue(value))
    IN  IF value \in -1 .. SmallMax THEN << >>
        ELSE IF bytes[Len(bytes)] >= SignBit
        THEN Append(bytes, IF value < 0 THEN SignBit ELSE 0)
        ELSE IF value < 0 THEN WithSign(bytes) ELSE bytes

ArgToBytes(param, arg) ==
    CASE param = "client"  -> arg
      [] param \in fields  -> EncodeFixedInt(arg, Width)
      [] OTHER             -> EncodeScriptInt(arg)

-----------------------------------------------------------------------------
(* The patcher.                                                            *)

Occurrences(haystack, needle) ==
    { offset \in 0 .. Len(haystack) - Len(needle) :
        SubSeq(haystack, offset + 1, offset + Len(needle)) = needle }

\* Offsets at which the bytes occur, in ascending order.
FindAllOccurrences(haystack, needle) ==
    LET found == Occurrences(haystack, needle)
    IN  IF needle = << >> THEN << >>
        ELSE [k \in 1 .. Cardinality(found) |->
                CHOOSE offset \in found :
                    Cardinality({ other \in found : other < offset }) = k - 1]

\* One entry for each parameter; a parameter that occurs nowhere throws.
ExtractPatchDescriptor(compiled, templateArgs) ==
    LET entry(i) ==
            LET bytes == ArgToBytes(Params[i], templateArgs[Params[i]])
            IN  [name |-> Params[i], placeholderBytes |-> bytes,
                 positions |-> FindAllOccurrences(compiled, bytes)]
    IN  IF \E i \in DOMAIN Params : entry(i).positions = << >>
        THEN Failed ELSE [i \in DOMAIN Params |-> entry(i)]

\* Writes one occurrence.  Every byte is compared with the placeholder before
\* it is replaced: an earlier patch may have changed it.
Overwrite(bytes, offset, old, new) ==
    IF SubSeq(bytes, offset + 1, offset + Len(old)) # old THEN Failed
    ELSE [i \in DOMAIN bytes |->
            IF i - offset \in 1 .. Len(new) THEN new[i - offset] ELSE bytes[i]]

\* Mutant: the placeholder is looked for again in the script patched so far.
ApplyParam_SearchedAgain(bytes, patch, newArgs) ==
    LET old == patch.placeholderBytes
        new == ArgToBytes(patch.name, newArgs[patch.name])
        Write(acc, offset) == IF acc = Failed THEN Failed
                              ELSE Overwrite(acc, offset, old, new)
    IN  IF new = Failed THEN Failed
        ELSE IF Len(new) # Len(old) THEN Failed
        ELSE FoldLeft(Write, bytes, FindAllOccurrences(bytes, old))

ApplyParam(bytes, patch, newArgs) ==
    LET old == patch.placeholderBytes
        new == ArgToBytes(patch.name, newArgs[patch.name])
        Write(acc, offset) == IF acc = Failed THEN Failed
                              ELSE Overwrite(acc, offset, old, new)
    IN  IF new = Failed THEN Failed
        ELSE IF Len(new) # Len(old) THEN Failed
        ELSE FoldLeft(Write, bytes, patch.positions)

ApplyPatch(compiled, patches, newArgs) ==
    LET Step(acc, patch) == IF acc = Failed THEN Failed
                            ELSE ApplyParam(acc, patch, newArgs)
    IN  FoldLeft(Step, compiled, patches)

-----------------------------------------------------------------------------
(* The compiler, external: the fields of the contract first, then the      *)
(* parameters used in its code, each behind a push opcode.                 *)

Push(bytes) == << Len(bytes) >> \o bytes

FieldCode(param, as) ==
    IF param \in fields THEN Push(EncodeFixedInt(as[param], Width)) ELSE << >>

InlineCode(param, as) ==
    IF param \in fields THEN << >>
    ELSE IF as[param] \in -1 .. SmallMax THEN << Base + as[param] >>
    ELSE Push(EncodeScriptInt(as[param]))

Compile(as) ==
    FieldCode("initTimeout", as) \o FieldCode("initNonce", as)
        \o Push(as["client"])
        \o InlineCode("initTimeout", as) \o InlineCode("initNonce", as) \o body

-----------------------------------------------------------------------------

CtorArgs == [client : Keys, initTimeout : Ints, initNonce : Ints]

\* A service loads a template and the arguments it was compiled with, and
\* extracts the descriptor; it exits if the extraction throws.
Init ==
    /\ fields \in SUBSET IntParams
    /\ body \in Bodies
    /\ placeholders \in Templates
    /\ template = Compile(placeholders)
    /\ descriptor = ExtractPatchDescriptor(template, placeholders)
    /\ descriptor # Failed
    /\ args = placeholders
    /\ script = template

\* patchChannelContract, for any channel.
PatchChannelContract ==
    /\ args' \in CtorArgs
    /\ script' = ApplyPatch(template, descriptor, args')
    /\ UNCHANGED << fields, body, placeholders, template, descriptor >>

Next == PatchChannelContract

Spec == Init /\ [][Next]_vars

-----------------------------------------------------------------------------
(* Properties.                                                             *)

\* Each placeholder occurs once, as those of x402-channel-v4-locked-ctor.json
\* do in the compiled contract.
Unambiguous ==
    \A i \in DOMAIN descriptor : Len(descriptor[i].positions) = 1

\* The patched script is the one the compiler would have produced with the
\* channel's arguments, byte for byte, so two parties that patch the same
\* arguments derive the same address and the contract that runs is the one
\* that was reviewed - also when an argument looks like the placeholder of
\* another.
PatchedIsCompiled ==
    Unambiguous /\ script # Failed => script = Compile(args)

\* applyPatch throws for no channel whose field arguments fit 8 bytes and whose
\* other arguments have the placeholders' length: every such channel has an
\* address, whatever its bytes, those that look like a placeholder included.
PatchesWhatFits ==
    /\ Unambiguous
    /\ \A p \in IntParams :
          IF p \in fields THEN AbsValue(args[p]) < Power[Width]
          ELSE Len(EncodeScriptInt(args[p])) = Len(EncodeScriptInt(placeholders[p]))
    => script # Failed

\* The integer a script reads from a field: little-endian, the top bit of the
\* last byte is the sign.
ReadFixed(bytes) ==
    LET lowest[n \in 0 .. Width] ==
            IF n = 0 THEN 0 ELSE lowest[n - 1] + bytes[n] * Power[n - 1]
        top == SignBit * Power[Width - 1]
    IN  IF lowest[Width] >= top THEN -(lowest[Width] - top) ELSE lowest[Width]

FieldOffset(param) ==
    IF param = "initNonce" /\ "initTimeout" \in fields THEN Width + 1 ELSE 0

\* The contract reads back the timeout and the nonce the program put into it,
\* so channels that differ in either have different addresses: what lets a
\* coin be looked up by (client, timeout, nonce).  An integer that needs the
\* sign bit is not read back.
ParametersReadBack ==
    Unambiguous /\ script # Failed =>
        \A p \in IntParams \cap fields :
            LET at == FieldOffset(p) + 1
            IN  AbsValue(args[p]) < SignBit * Power[Width - 1] =>
                    ReadFixed(SubSeq(script, at + 1, at + Width)) = args[p]

=============================================================================
