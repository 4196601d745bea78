----------------------------- MODULE EntryCodec -----------------------------
(***************************************************************************)
(* entry_codec.cpp and the payloads of network.cpp: the text of a journal   *)
(* or manifest line, of a list of hashes, and the bytes of CHUNK_DATA.      *)
(* Text is a sequence of tokens: separators, digits, words and node ids.    *)
(* Numbers are written in base 2, decimal and hexadecimal ones alike; a     *)
(* byte is two digits.  What may throw yields {} or {the value}.            *)
(***************************************************************************)
EXTENDS Naturals, SequencesExt

CONSTANTS NodeIds,            \* node ids, in the order of std::map
          DigestLen           \* bytes of a digest (32 in the code)

TAB == "TAB"
NL == "NL"
Digit == {"0", "1"}

-----------------------------------------------------------------------------
(* Strings.                                                                 *)

Join(parts, sep) == FlattenSeq([k \in DOMAIN parts |-> IF k = 1 THEN parts[1] ELSE sep \o parts[k]])

find(s, token) == SelectInSeq(s, LAMBDA t : t = token)

\* std::getline until the end of s: a separator at the end opens no field.
RECURSIVE getline_all(_, _)
getline_all(s, sep) ==
  LET k == find(s, sep) IN
  IF s = <<>> THEN <<>>
  ELSE IF k = 0 THEN <<s>>
  ELSE <<SubSeq(s, 1, k - 1)>> \o getline_all(SubSeq(s, k + 1, Len(s)), sep)

\* The digits of a number.
Digits(v) ==
  LET ds[x \in 0 .. v] == IF x < 2 THEN <<ToString(x)>> ELSE ds[x \div 2] \o <<ToString(x % 2)>>
  IN ds[v]

ValueOf(digits) == FoldLeft(LAMBDA v, d : 2 * v + (IF d = "1" THEN 1 ELSE 0), 0, digits)

\* std::stoull and std::stoi: the digits s begins with, of which there must be one.
stoull(s) ==
  LET other == SelectInSeq(s, LAMBDA t : t \notin Digit)
      digits == IF other = 0 THEN s ELSE SubSeq(s, 1, other - 1)
  IN IF digits = <<>> THEN {} ELSE {ValueOf(digits)}

\* What a loop yields whose steps may throw.
Collect(steps) ==
  IF \E k \in DOMAIN steps : steps[k] = {} THEN {}
  ELSE {[k \in DOMAIN steps |-> CHOOSE v \in steps[k] : TRUE]}

-----------------------------------------------------------------------------
(* Digests and clocks.                                                      *)

to_hex(digest) == FlattenSeq([k \in DOMAIN digest |-> <<ToString(digest[k] \div 2),
                                                        ToString(digest[k] % 2)>>])

\* Mutant: the loop goes on while one digit is left.
HexMutant(hex) ==
  Collect([k \in 1 .. DigestLen |->
             IF 2 * k - 1 <= Len(hex) THEN stoull(SubSeq(hex, 2 * k - 1, Min({2 * k, Len(hex)})))
             ELSE {0}])

\* Bytes without two digits are 0.
hex_to_digest(hex) ==
  Collect([k \in 1 .. DigestLen |-> IF 2 * k <= Len(hex) THEN stoull(SubSeq(hex, 2 * k - 1, 2 * k))
                                    ELSE {0}])

\* A clock maps node ids, as text, to counters.
clock_to_wire(c) ==
  Join([k \in DOMAIN SelectSeq(NodeIds, LAMBDA n : <<n>> \in DOMAIN c) |->
          LET n == SelectSeq(NodeIds, LAMBDA m : <<m>> \in DOMAIN c)[k]
          IN <<n, ":">> \o Digits(c[<<n>>])], <<",">>)

\* Parts without a colon are skipped.
clock_from_wire(s) ==
  LET pairs == SelectSeq(getline_all(s, ","), LAMBDA p : find(p, ":") # 0)
      key(p) == SubSeq(p, 1, find(p, ":") - 1)
  IN {[n \in {key(pairs[k]) : k \in DOMAIN pairs} |->
         vals[SelectLastInSeq(pairs, LAMBDA p : key(p) = n)]]
      : vals \in Collect([k \in DOMAIN pairs |->
                            stoull(SubSeq(pairs[k], find(pairs[k], ":") + 1, Len(pairs[k])))])}

-----------------------------------------------------------------------------
(* Entries.                                                                 *)

entry_to_line(e) ==
  Join(<<e.path, <<IF e.deleted THEN "1" ELSE "0">>, Digits(e.size), to_hex(e.merkle_root),
         clock_to_wire(e.clock), e.last_writer,
         Join([k \in DOMAIN e.chunk_hashes |-> to_hex(e.chunk_hashes[k])], <<",">>)>>,
       <<TAB>>)

\* Mutant: a missing size is not taken for 0.
SizeMutant(field) == stoull(field)

Size(field) == IF field = <<>> THEN {0} ELSE stoull(field)

line_to_entry(line) ==
  LET fields == getline_all(line, TAB)
      field(k) == IF k <= Len(fields) THEN fields[k] ELSE <<>>
      hexes == SelectSeq(getline_all(field(7), ","), LAMBDA h : h # <<>>)
  IN {[path |-> field(1), deleted |-> field(2) = <<"1">>, size |-> size, merkle_root |-> root,
       clock |-> clock, last_writer |-> field(6), chunk_hashes |-> hashes]
      : size \in Size(field(3)), root \in hex_to_digest(field(4)),
        clock \in clock_from_wire(field(5)),
        hashes \in Collect([k \in DOMAIN hexes |-> hex_to_digest(hexes[k])])}
=============================================================================
