-------------------------- MODULE MCTemplatePatcher --------------------------
(* Bytes of two bits and fields of two bytes: integers up to 15 fit a field, *)
(* up to 7 without touching the sign, and the encodings used in code change  *)
(* length at 3 and at 8.  Keys and bodies repeat the bytes of placeholders.  *)
EXTENDS TemplatePatcher

MCKeys == { << 1, 2, 3 >>, << 3, 1, 2 >>, << 1, 1, 1 >> }
MCInts == {0, 1, 3, 5, 7, 9, 15, 16}
MCTemplates ==
    { [client |-> << 1, 2, 3 >>, initTimeout |-> 5, initNonce |-> 6],
      [client |-> << 3, 0, 1 >>, initTimeout |-> 9, initNonce |-> 5],
      [client |-> << 1, 2, 3 >>, initTimeout |-> 6, initNonce |-> 9] }
MCBodies == { << >>, << 3, 2, 3 >> }

=============================================================================
