------------------------------ MODULE CsvCodec ------------------------------
(***************************************************************************)
(* The native CSV format of internal/importexport: how an item and what    *)
(* hangs off it become the cells of a row, and how the cells are read back. *)
(*                                                                         *)
(* A cell is a sequence of characters; the CSV quoting around it is         *)
(* encoding/csv's.  "name" stands for the plain text columns of the item,   *)
(* "holder" for the text columns of a block and "flag" for the one column a *)
(* block always fills (is_lifetime, price_minor).                           *)
(***************************************************************************)
EXTENDS Sequences, SequencesExt, FiniteSets

(* Mutant: the separator of an identification's parts is not escaped. *)
EscapeSubValue_NoColon(s) ==
    FlattenSeq([k \in 1..Len(s) |->
        IF s[k] \in {"\\", "|"} THEN <<"\\", s[k]>> ELSE <<s[k]>>])

Escape(s, special) ==
    FlattenSeq([k \in 1..Len(s) |->
        IF s[k] \in special THEN <<"\\", s[k]>> ELSE <<s[k]>>])

EscapeSubValue(s) == Escape(s, {"\\", "|", ":"})
escapeColumnName(s) == Escape(s, {"\\", "|", ":", "#"})

(* A backslash stands for the character after it, the last one for itself.  *)
ReadEscaped(acc, c) ==
    CASE acc.escaped -> [out |-> Append(acc.out, c), escaped |-> FALSE]
      [] ~acc.escaped /\ c = "\\" -> [acc EXCEPT !.escaped = TRUE]
      [] ~acc.escaped /\ c # "\\" -> [acc EXCEPT !.out = Append(@, c)]
Flushed(acc) == IF acc.escaped THEN Append(acc.out, "\\") ELSE acc.out
UnescapeSubValue(s) == Flushed(FoldLeft(ReadEscaped, [out |-> <<>>, escaped |-> FALSE], s))

(* Splits at the separators that no backslash precedes; the parts keep      *)
(* their backslashes.                                                        *)
SplitEscaped(s, sep) ==
    LET Extend(acc, c) == [acc EXCEPT ![Len(acc)] = Append(@, c)]
        Read(acc, c) ==
            CASE acc.escaped -> [out |-> Extend(acc.out, c), escaped |-> FALSE]
              [] ~acc.escaped /\ c = sep -> [acc EXCEPT !.out = Append(@, <<>>)]
              [] ~acc.escaped /\ c # sep -> [out |-> Extend(acc.out, c), escaped |-> c = "\\"]
    IN  IF s = <<>> THEN <<>>
        ELSE FoldLeft(Read, [out |-> <<<<>>>>, escaped |-> FALSE], s).out

JoinWith(parts, sep) ==
    IF parts = <<>> THEN <<>>
    ELSE FoldLeft(LAMBDA acc, part : acc \o <<sep>> \o part, Head(parts), Tail(parts))

joinEscaped(values, sep) ==
    JoinWith([k \in DOMAIN values |-> EscapeSubValue(values[k])], sep)

----------------------------------------------------------------------------
(* Cells with several values. *)

encodeLabels(names) == joinEscaped(names, "|")
encodeIdentifications(pairs) ==
    JoinWith([k \in DOMAIN pairs |-> joinEscaped(pairs[k], ":")], "|")

Unescaped(parts) == [k \in DOMAIN parts |-> UnescapeSubValue(parts[k])]

(* Each parser returns what it read and whether it found an error. *)
CheckLabels(names) ==
    [value |-> SelectSeq(names, LAMBDA n : n # <<>>), error |-> <<>> \in Range(names)]
parseLabels(cell) == CheckLabels(Unescaped(SplitEscaped(cell, "|")))

ValidIdentification(p) == Len(p) = 2 /\ p[1] = <<"k">> /\ p[2] # <<>>
CheckIdentifications(pairs) ==
    [value |-> SelectSeq(pairs, ValidIdentification),
     error |-> \E k \in DOMAIN pairs : ~ValidIdentification(pairs[k])]
SplitPairs(entries) == [k \in DOMAIN entries |-> Unescaped(SplitEscaped(entries[k], ":"))]
parseIdentifications(cell) == CheckIdentifications(SplitPairs(SplitEscaped(cell, "|")))

(* A block's cells <<holder, flag>>; NoBlock where the item has none.        *)
NoBlock == <<>>
blockCells(b) == IF b = NoBlock THEN <<<<>>, <<>>>> ELSE <<b[1], <<"0">>>>
parseBlock(cells) == IF cells = <<<<>>, <<>>>> THEN NoBlock ELSE <<cells[1]>>

----------------------------------------------------------------------------
(* Custom field columns.  A column is named cf:<name> after a live           *)
(* definition, cf:<name>#<id> when another has the same name, and            *)
(* cfx:<type>:<name> for a value of no live definition.  Headers are kept as  *)
(* <<prefix, rest>>; an id is one character.                                 *)

SameName(def, defs) == {d \in defs : d.name = def.name}

customFieldDefHeader(def, defs) ==
    IF Cardinality(SameName(def, defs)) > 1
    THEN <<"cf:", escapeColumnName(def.name) \o <<"#", def.id>>>>
    ELSE <<"cf:", escapeColumnName(def.name)>>

adHocHeader(fieldType, name) ==
    <<"cfx:", <<fieldType, ":">> \o escapeColumnName(name)>>

(* Kind "none": not a column name. *)
NoColumn == [kind |-> "none", type |-> "", name |-> <<>>, id |-> <<>>]
adHocColumn(parts) ==
    IF Len(parts) # 2 THEN NoColumn
    ELSE [kind |-> "adhoc", type |-> UnescapeSubValue(parts[1])[1],
          name |-> UnescapeSubValue(parts[2]), id |-> <<>>]
defColumn(parts) ==
    IF Len(parts) \notin {1, 2} THEN NoColumn
    ELSE [kind |-> "def", type |-> "", name |-> UnescapeSubValue(parts[1]),
          id |-> IF Len(parts) = 2 THEN parts[2] ELSE <<>>]
ParseCustomFieldColumn(header) ==
    CASE header[1] = "cfx:" -> adHocColumn(SplitEscaped(header[2], ":"))
      [] header[1] = "cf:" -> defColumn(SplitEscaped(header[2], "#"))

(* The definition a column is about: by id when it has one, else the only   *)
(* one of its name.  None or several: the row is an error.                   *)
DefOfColumn(col, defs) ==
    {d \in defs : IF col.id # <<>> THEN <<d.id>> = col.id
                  ELSE d.name = col.name /\ Cardinality(SameName(d, defs)) = 1}

============================================================================
