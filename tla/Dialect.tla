------------------------------- MODULE Dialect -------------------------------
(***************************************************************************)
(* Which operator an opcode names.  ChiaDialect (src/chia_dialect.rs) has  *)
(* a fixed table; RuntimeDialect (src/runtime_dialect.rs) is given one by  *)
(* name and finds the operators in src/f_table.rs.  The core operators     *)
(* (src/core_ops.rs) and keccak256 (src/keccak256_ops.rs) are here too.    *)
(***************************************************************************)
EXTENDS BlsOps

CONSTANTS
  Keccak256(_),  \* the other hash of a byte string
  OP_MAP         \* the table a RuntimeDialect is made of: name -> opcode

ASSUME DialectAssumption ==
  /\ Keccak256(<<>>) \in Seq(Byte)
  /\ \A name \in DOMAIN OP_MAP : OP_MAP[name] \in Seq(Byte)

\* The flags that an interpreter looks at (LIMIT_HEAP is for whoever makes the
\* allocator, as HEAP_LIMIT).
Dialects == {"ChiaDialect", "RuntimeDialect"}
Flags == {"NO_UNKNOWN_OPS", "ENABLE_KECCAK", "ENABLE_KECCAK_OPS_OUTSIDE_GUARD"}
OperatorSet == {"Default", "Bls", "Keccak"}

\* A RuntimeDialect is given its quote_kw and apply_kw; they are Chia's here.
quote_kw == 1
apply_kw == 2
softfork_kw == 36

softfork_extension(dialect, flags, ext) ==
  CASE dialect = "RuntimeDialect" -> "Default"
    [] ext = 0 -> "Bls"
    [] ext = 1 /\ "ENABLE_KECCAK" \in flags -> "Keccak"
    [] OTHER -> "Default"

allow_unknown_ops(flags) == "NO_UNKNOWN_OPS" \notin flags

-----------------------------------------------------------------------------
(* The core operators and keccak256.                                       *)

op_if(a, l) ==
  IF ThreeArgs(a, l)
  THEN Reduced(a, IF_COST, IF nilp(a, Arg1(a, l)) THEN Arg3(a, l) ELSE Arg2(a, l))
  ELSE Failed(a)

op_cons(a, l) ==
  IF TwoArgs(a, l) THEN Charging(CONS_COST, new_pair(a, Arg1(a, l), Arg2(a, l)))
                   ELSE Failed(a)

op_first(a, l) ==
  IF OneArg(a, l) /\ ~IsAtom(Arg1(a, l))
  THEN Reduced(a, FIRST_COST, First(a, Arg1(a, l))) ELSE Failed(a)

op_rest(a, l) ==
  IF OneArg(a, l) /\ ~IsAtom(Arg1(a, l))
  THEN Reduced(a, REST_COST, Rest(a, Arg1(a, l))) ELSE Failed(a)

op_listp(a, l) ==
  IF OneArg(a, l) THEN Reduced(a, LISTP_COST, Truth(~IsAtom(Arg1(a, l)))) ELSE Failed(a)

\* Always an error; which node it carries is left out.
op_raise(a, l) == Failed(a)

op_eq(a, l) ==
  LET s0 == Arg1(a, l)
      s1 == Arg2(a, l)
  IN  IF TwoArgs(a, l) /\ IsAtom(s0) /\ IsAtom(s1)
      THEN Reduced(a, EQ_BASE_COST + EQ_COST_PER_BYTE * (atom_len(a, s0) + atom_len(a, s1)),
                   Truth(atom_eq(a, s0, s1)))
      ELSE Failed(a)

\* The cost is tested before an argument's bytes are counted; the digest is
\* paid for by the byte.
op_keccak256(a, l, max_cost) ==
  LET args == Items(a, l)
      cost(k, counted) == KECCAK256_BASE_COST + KECCAK256_COST_PER_ARG * k
                            + KECCAK256_COST_PER_BYTE * ByteCount(a, args, counted)
      tested == [k \in DOMAIN args |-> cost(k, k - 1)]
  IN  IF Admitted(a, args, max_cost, tested)
      THEN new_atom_and_cost(a, cost(Len(args), Len(args)), Keccak256(AllBytes(a, args)))
      ELSE Failed(a)

-----------------------------------------------------------------------------
(* The tables.                                                             *)

\* A call of the operator that f_table.rs knows by this name.
Call_op(name, a, l, m) ==
  CASE name = "op_if" -> op_if(a, l)
    [] name = "op_cons" -> op_cons(a, l)
    [] name = "op_first" -> op_first(a, l)
    [] name = "op_rest" -> op_rest(a, l)
    [] name = "op_listp" -> op_listp(a, l)
    [] name = "op_raise" -> op_raise(a, l)
    [] name = "op_eq" -> op_eq(a, l)
    [] name = "op_gr_bytes" -> op_gr_bytes(a, l, m)
    [] name = "op_sha256" -> op_sha256(a, l, m)
    [] name = "op_substr" -> op_substr(a, l, m)
    [] name = "op_strlen" -> op_strlen(a, l, m)
    [] name = "op_concat" -> op_concat(a, l, m)
    [] name = "op_add" -> op_add(a, l, m)
    [] name = "op_subtract" -> op_subtract(a, l, m)
    [] name = "op_multiply" -> op_multiply(a, l, m)
    [] name = "op_div" -> op_div(a, l, m)
    [] name = "op_divmod" -> op_divmod(a, l, m)
    [] name = "op_gr" -> op_gr(a, l, m)
    [] name = "op_ash" -> op_ash(a, l, m)
    [] name = "op_lsh" -> op_lsh(a, l, m)
    [] name = "op_logand" -> op_logand(a, l, m)
    [] name = "op_logior" -> op_logior(a, l, m)
    [] name = "op_logxor" -> op_logxor(a, l, m)
    [] name = "op_lognot" -> op_lognot(a, l, m)
    [] name = "op_point_add" -> op_point_add(a, l, m)
    [] name = "op_pubkey_for_exp" -> op_pubkey_for_exp(a, l, m)
    [] name = "op_not" -> op_not(a, l, m)
    [] name = "op_any" -> op_any(a, l, m)
    [] name = "op_all" -> op_all(a, l, m)
    [] name = "op_coinid" -> op_coinid(a, l, m)
    [] name = "op_g1_subtract" -> op_bls_g1_subtract(a, l, m)
    [] name = "op_g1_multiply" -> op_bls_g1_multiply(a, l, m)
    [] name = "op_g1_negate" -> op_bls_g1_negate(a, l, m)
    [] name = "op_g2_add" -> op_bls_g2_add(a, l, m)
    [] name = "op_g2_subtract" -> op_bls_g2_subtract(a, l, m)
    [] name = "op_g2_multiply" -> op_bls_g2_multiply(a, l, m)
    [] name = "op_g2_negate" -> op_bls_g2_negate(a, l, m)
    [] name = "op_g1_map" -> op_bls_map_to_g1(a, l, m)
    [] name = "op_g2_map" -> op_bls_map_to_g2(a, l, m)
    [] name = "op_bls_pairing_identity" -> op_bls_pairing_identity(a, l, m)
    [] name = "op_bls_verify" -> op_bls_verify(a, l, m)
    [] name = "op_modpow" -> op_modpow(a, l, m)
    [] name = "op_mod" -> op_mod(a, l, m)
    [] name = "op_keccak256" -> op_keccak256(a, l, m)
    [] name = "op_secp256k1_verify" -> op_secp256k1_verify(a, l, m)
    [] name = "op_secp256r1_verify" -> op_secp256r1_verify(a, l, m)

\* The operators of ChiaDialect, in runs of consecutive opcodes.
FROM_3 == <<"op_if", "op_cons", "op_first", "op_rest", "op_listp", "op_raise", "op_eq",
            "op_gr_bytes", "op_sha256", "op_substr", "op_strlen", "op_concat">>
FROM_16 == <<"op_add", "op_subtract", "op_multiply", "op_div", "op_divmod", "op_gr",
             "op_ash", "op_lsh", "op_logand", "op_logior", "op_logxor", "op_lognot">>
FROM_29 == <<"op_point_add", "op_pubkey_for_exp">>
FROM_32 == <<"op_not", "op_any", "op_all">>
FROM_48 == <<"op_coinid", "op_g1_subtract", "op_g1_multiply", "op_g1_negate", "op_g2_add",
             "op_g2_subtract", "op_g2_multiply", "op_g2_negate", "op_g1_map", "op_g2_map",
             "op_bls_pairing_identity", "op_bls_verify", "op_modpow", "op_mod">>
Unknown == "unknown"

\* The two opcodes of four bytes.  As unknown operators they cost what they
\* cost as operators.
SecpName(v) ==
  CASE v = <<19, 214, 31, 0>> -> "op_secp256k1_verify"
    [] v = <<28, 58, 143, 0>> -> "op_secp256r1_verify"
    [] OTHER -> Unknown

ChiaName(a, o, keccak) ==
  LET n == small_number(a, o)
  IN  CASE atom_len(a, o) = 4 -> SecpName(Atom(a, o))
        [] atom_len(a, o) # 1 -> Unknown
        [] OTHER ->
             CASE n \in 3 .. 14 -> FROM_3[n - 2]
               [] n \in 16 .. 27 -> FROM_16[n - 15]
               [] n \in 29 .. 30 -> FROM_29[n - 28]
               [] n \in 32 .. 34 -> FROM_32[n - 31]
               [] n \in 48 .. 61 -> FROM_48[n - 47]
               [] n = 62 /\ keccak -> "op_keccak256"
               [] OTHER -> Unknown

\* The names f_table.rs knows.
opcode_by_name ==
  ((UNION {{t[i] : i \in DOMAIN t} : t \in {FROM_3, FROM_16, FROM_29, FROM_32, FROM_48}})
     \cup {"op_secp256k1_verify", "op_secp256r1_verify"}) \ {"op_coinid"}

\* f_lookup_for_hashmap panics on a name it does not know.
ASSUME OpMapAssumption ==
  \A name \in DOMAIN OP_MAP : Len(OP_MAP[name]) = 1 => name \in opcode_by_name

\* RuntimeDialect: opcodes of one byte, whatever their sign.
RuntimeName(a, o) ==
  LET names == {name \in DOMAIN OP_MAP : /\ Len(OP_MAP[name]) = 1
                                         /\ OP_MAP[name] = Atom(a, o)}
  IN  IF names = {} THEN Unknown ELSE CHOOSE name \in names : TRUE

\* A call of opcode o.  Inside a guard the extension adds its operators.
op(dialect, a, flags, o, l, max_cost, extension) ==
  LET keccak == \/ "ENABLE_KECCAK_OPS_OUTSIDE_GUARD" \in flags
                \/ extension = "Keccak"
      name == IF dialect = "ChiaDialect" THEN ChiaName(a, o, keccak)
                                         ELSE RuntimeName(a, o)
  IN  IF name # Unknown THEN Call_op(name, a, l, max_cost)
      ELSE IF allow_unknown_ops(flags) THEN op_unknown(a, o, l, max_cost)
      ELSE Failed(a)
=============================================================================
