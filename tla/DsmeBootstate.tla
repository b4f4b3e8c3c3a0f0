---------------------------- MODULE DsmeBootstate ----------------------------
(***************************************************************************)
(* The string handling that src/modules/state.c applies to the BOOTSTATE   *)
(* environment variable at start-up: the DSME_SKIP_PREFIX macro and        *)
(* parse_malf_info().  A C string is abstracted to a sequence of tokens:   *)
(* bootloader keywords, the space character SP and opaque words, so that  *)
(* prefix matching and strtok_r() splitting keep their meaning while the   *)
(* characters of a word are left out.                                      *)
(***************************************************************************)
EXTENDS Integers, Sequences, SequencesExt

SP   == " "            \* the delimiter character of strtok_r(p, " ", ...)
NULL == "NULL"         \* a NULL char pointer

Keywords == {"SHUTDOWN", "USER", "ACT_DEAD", "BOOT", "LOCAL", "TEST",
             "FLASH", "MALF"}

(* DSME_SKIP_PREFIX(string, prefix): NULL when the string does not start   *)
(* with the prefix, otherwise the text after the prefix with one space     *)
(* skipped if the prefix is followed by a space.                           *)
SkipPrefix(str, prefix) ==
    IF str = <<>> \/ Head(str) # prefix THEN NULL
    ELSE IF Len(str) > 1 /\ str[2] = SP THEN Tail(Tail(str))
    ELSE Tail(str)

RECURSIVE SkipDelims(_)
SkipDelims(p) == IF p # <<>> /\ Head(p) = SP THEN SkipDelims(Tail(p)) ELSE p

(* One call of strtok_r(str, " ", &save): skip leading delimiters, return  *)
(* NULL at the end of the string, else the token up to the next delimiter, *)
(* which is overwritten so that save points past it.                       *)
Strtok(p) ==
    LET q   == SkipDelims(p)
        end == SelectInSeq(q, LAMBDA t : t = SP)
        n   == IF end = 0 THEN Len(q) ELSE end - 1
    IN  IF q = <<>> THEN [tok |-> NULL, save |-> <<>>]
        ELSE [tok |-> SubSeq(q, 1, n), save |-> SubSeq(q, n + 2, Len(q))]

(* parse_malf_info(): reason and component are the first two space        *)
(* separated words; details, strtok_r(0, "", &save), is the non-empty      *)
(* remainder.  A later field is only looked for when the earlier is found. *)
ParseMalfInfo(p) ==
    LET r == Strtok(p)
        c == Strtok(r.save)
        d == IF c.save = <<>> THEN NULL ELSE c.save
    IN  [reason    |-> r.tok,
         component |-> IF r.tok = NULL THEN NULL ELSE c.tok,
         details   |-> IF r.tok = NULL \/ c.tok = NULL THEN NULL ELSE d]
==============================================================================
