------------------------------- MODULE EditShape -------------------------------
(***************************************************************************)
(* What the rows of a query may be edited as: the recogniser of simple     *)
(* queries (driver-api/src/edit_query.rs) and, per driver, the inspection  *)
(* of the table behind one (edit_query and inspect_query, edit_target and  *)
(* inspect_target, result_cells).  A query is a sequence of tokens; names  *)
(* are compared as the code compares them, and no two tables of a database *)
(* differ by the case of their names alone.                                *)
(***************************************************************************)
EXTENDS Integers, Sequences, SequencesExt, FiniteSets

CONSTANTS EsCases       \* the queries, with the table each reads and what it returns

VARIABLES
    esCase,
    esTarget,           \* EditQueryTarget, or EsUnread before the inspection
    esCells             \* the metadata of the result's columns: ResultCellMetadata

esVars == <<esCase, esTarget, esCells>>

EsUnread == [reason |-> "unread", keys |-> {}, sources |-> <<>>]

-----------------------------------------------------------------------------
(* The recogniser. *)

Word(text) == [text |-> text, quoted |-> FALSE]
Quoted(text) == [text |-> text, quoted |-> TRUE]
Keyword(token, word) == ~token.quoted /\ token.text = word
IsAny(token, words) == ~token.quoted /\ token.text \in words

Marks == {".", ",", "*", "(", ")", ";", "+", "1"}
Identifier(token) == token.quoted \/ token.text \notin Marks

\* A comment or an unknown character is refused by every driver; MySQL refuses what its modes decide.
Lexed(driver, tokens) ==
    \A i \in DOMAIN tokens :
        ~IsAny(tokens[i], {"comment"} \cup (IF driver = "mysql" THEN {"escape"} ELSE {}))

Openings == {"WHERE", "ORDER", "LIMIT", "OFFSET"}
Combining == {"JOIN", "FROM", "SELECT", "UNION", "INTERSECT", "EXCEPT", "GROUP", "HAVING", "WINDOW", "INTO"}

\* The positions of the table's name and of its alias (of its name, without one) after FROM.
NameAt(tokens, from) == IF from + 2 <= Len(tokens) /\ tokens[from + 2].text = "." THEN from + 3 ELSE from + 1
AliasAt(tokens, name) ==
    IF name + 1 > Len(tokens) THEN name
    ELSE IF Keyword(tokens[name + 1], "AS") THEN name + 2
    ELSE IF Identifier(tokens[name + 1]) /\ ~IsAny(tokens[name + 1], Openings) THEN name + 1
    ELSE name

\* As it would be if what follows the table's alias were not looked at.
TailAllowedBlindly(tail) == \A i \in DOMAIN tail : ~IsAny(tail[i], Combining)

TailAllowed(tail) ==
    /\ \A i \in DOMAIN tail : ~IsAny(tail[i], Combining) /\ (tail[i].text = ";" => i = Len(tail))
    /\ tail # <<>> => IsAny(Head(tail), Openings) \/ Head(tail).text = ";"

\* The items between SELECT and FROM, cut at the commas outside of parentheses.
Depth(tokens, i) ==
      Cardinality({j \in 2 .. i : tokens[j].text = "("}) - Cardinality({j \in 2 .. i : tokens[j].text = ")"})
Cuts(tokens, from) == {1, from} \cup {i \in 2 .. from - 1 : tokens[i].text = "," /\ Depth(tokens, i) = 0}
Balanced(tokens, from) == (\A i \in 2 .. from - 1 : Depth(tokens, i) >= 0) /\ Depth(tokens, from - 1) = 0
Items(tokens, from) ==
    LET cuts == SetToSortSeq(Cuts(tokens, from), <)
    IN  [i \in 1 .. Len(cuts) - 1 |-> SubSeq(tokens, cuts[i] + 1, cuts[i + 1] - 1)]

Star(item, names) ==
    \/ Len(item) = 1 /\ item[1].text = "*"
    \/ Len(item) = 3 /\ item[2].text = "." /\ item[3].text = "*" /\ item[1].text \in names
AsLabel(item) == Len(item) >= 3 /\ Keyword(item[Len(item) - 1], "AS") /\ Identifier(Last(item))
BareLabel(item) == ~AsLabel(item) /\ Len(item) \in {2, 4} /\ Identifier(Last(item))
Body(item) ==
    IF AsLabel(item) THEN SubSeq(item, 1, Len(item) - 2) ELSE IF BareLabel(item) THEN Front(item) ELSE item
\* The column an item names, or "" for a computed one.
Column(body, names) ==
    IF Len(body) = 1 /\ Identifier(body[1]) THEN body[1].text
    ELSE IF /\ Len(body) = 3 /\ Identifier(body[1]) /\ body[2].text = "." /\ Identifier(body[3])
            /\ body[1].text \in names
         THEN body[3].text ELSE ""
\* The result shows a column under its label or, without one, under its own name.
SameName(item, column, output) ==
    column # "" => IF AsLabel(item) \/ BareLabel(item) THEN output = Last(item).text ELSE output = column

NoShape == [found |-> FALSE, table |-> "", schema |-> FALSE, sources |-> <<>>]

SimpleSelect(tokens, outputs) ==
    LET from == CHOOSE i \in DOMAIN tokens :
                    Keyword(tokens[i], "FROM") /\ \A j \in 1 .. i - 1 : ~Keyword(tokens[j], "FROM")
        name == NameAt(tokens, from)
        alias == AliasAt(tokens, name)
        names == {tokens[name].text, tokens[alias].text}
        items == Items(tokens, from)
        source == [i \in DOMAIN items |-> Column(Body(items[i]), names)]
        Shape(sources) == [found |-> TRUE, table |-> tokens[name].text, schema |-> name # from + 1, sources |-> sources]
    IN  IF \/ Len(tokens) < 4 \/ ~Keyword(tokens[1], "SELECT")
           \/ \E i \in 2 .. Len(tokens) : Keyword(tokens[i], "SELECT")
           \/ ~\E i \in 3 .. Len(tokens) - 1 : Keyword(tokens[i], "FROM")
           \/ name > Len(tokens) \/ ~Identifier(tokens[from + 1]) \/ ~Identifier(tokens[name])
           \/ alias > Len(tokens) \/ ~Identifier(tokens[alias])
           \/ ~TailAllowed(SubSeq(tokens, alias + 1, Len(tokens)))
           \/ ~Balanced(tokens, from) \/ \E i \in DOMAIN items : items[i] = <<>>
        THEN NoShape
        ELSE IF Len(items) = 1 /\ Star(items[1], names) THEN Shape(outputs)
        ELSE IF /\ Len(items) = Len(outputs)
                /\ \A i \in DOMAIN items : SameName(items[i], source[i], outputs[i])
             THEN Shape(source) ELSE NoShape

-----------------------------------------------------------------------------
(* The table behind a query.  An index is whole when it covers every row by   *)
(* columns alone: no predicate, no expression, valid.                         *)

ColumnNames(table) == {table.columns[i].name : i \in DOMAIN table.columns}
ColumnOf(table, name) == table.columns[CHOOSE i \in DOMAIN table.columns : table.columns[i].name = name]
NotNull(table, names) == \A name \in names : name \in ColumnNames(table) /\ ~ColumnOf(table, name).nullable
FirstOf(indexes) == IF indexes = <<>> THEN {} ELSE indexes[1].columns
Primary(index) == index.primary

\* The columns that tell the rows of the table apart, or none.
KeyColumns(driver, table) ==
    LET primary == FirstOf(SelectSeq(table.indexes, Primary))
        \* SQLite takes a primary key without nulls, or the first other whole index of stored columns.
        sqliteUsable(index) ==
            /\ index.whole /\ NotNull(table, index.columns)
            /\ \A name \in index.columns : ~ColumnOf(table, name).generated
        \* PostgreSQL lists its primary index first; its columns cannot be null.
        postgresUsable(index) == index.whole /\ (index.primary \/ NotNull(table, index.columns))
        others(usable(_)) == SelectSeq(table.indexes, usable)
    IN  CASE driver = "sqlite" -> IF primary # {} /\ NotNull(table, primary) THEN primary ELSE FirstOf(others(sqliteUsable))
          [] driver = "postgres" -> IF primary # {} THEN primary ELSE FirstOf(others(postgresUsable))
          [] driver = "mysql" -> IF primary # {} THEN primary ELSE FirstOf(others(postgresUsable))

\* Base tables only; MySQL edits none outside of transactions.
Editable(driver, table) == table.kind = "table" /\ (driver = "mysql" => table.transactional)

ReadOnly(reason) == [reason |-> reason, keys |-> {}, sources |-> <<>>]

ShapeOf(case) ==
    IF Lexed(case.driver, case.tokens) THEN SimpleSelect(case.tokens, case.outputs) ELSE NoShape

EditQuery(case) ==
    LET driver == case.driver  table == case.table
        shape == IF Lexed(driver, case.tokens) THEN SimpleSelect(case.tokens, case.outputs) ELSE NoShape
        sources == shape.sources
        named == {i \in DOMAIN sources : sources[i] # ""}
        keys == KeyColumns(driver, table)
    IN  IF \/ ~shape.found
           \/ driver = "sqlite" /\ ~shape.schema /\ case.shadowed
           \/ shape.table # table.name \/ ~Editable(driver, table)
           \/ \E i \in named : sources[i] \notin ColumnNames(table)
        THEN ReadOnly("shape")
        ELSE IF \E i, j \in named : i # j /\ sources[i] = sources[j] THEN ReadOnly("duplicate")
        ELSE IF keys = {} \/ ~(keys \subseteq Range(sources)) THEN ReadOnly("keys")
        ELSE [reason |-> "", keys |-> keys, sources |-> sources]

\* The source and the one referenced column of each column of the result, where they are certain.
NoCell == [source |-> "", foreign |-> ""]
\* SQLite alone has tables that hide the one of the main schema.
Found(case, shape) ==
    /\ shape.found /\ shape.table = case.table.name /\ case.table.kind = "table"
    /\ ~(case.driver = "sqlite" /\ ~shape.schema /\ case.shadowed)
Once(sources, name) == Cardinality({i \in DOMAIN sources : sources[i] = name}) = 1

\* Every foreign key of several columns counts against each of them.
References(table, name) == {f \in table.foreign : name \in Range(f.from)}
Foreign(table, name) ==
    IF \E f \in References(table, name) : References(table, name) = {f} /\ Len(f.from) = 1 /\ f.found
    THEN (CHOOSE f \in References(table, name) : TRUE).to ELSE ""

Cell(table, sources, name) ==
    IF name = "" \/ ~Once(sources, name) \/ name \notin ColumnNames(table) THEN NoCell
    ELSE [source |-> name, foreign |-> Foreign(table, name)]
ResultCells(case) ==
    LET shape == ShapeOf(case)
    IN  [i \in DOMAIN case.outputs |->
            IF Found(case, shape) THEN Cell(case.table, shape.sources, shape.sources[i]) ELSE NoCell]

EsInit == esCase \in EsCases /\ esTarget = EsUnread /\ esCells = <<>>

\* The result is inspected, for its cells and for editing.
EsInspect ==
    /\ esTarget = EsUnread
    /\ esTarget' = EditQuery(esCase) /\ esCells' = ResultCells(esCase)
    /\ UNCHANGED esCase

EsNext == EsInspect
EsSpec == EsInit /\ [][EsNext]_esVars

-----------------------------------------------------------------------------
(* What the server returned for the query is known to the case alone: for     *)
(* each column of the result the column of the table it shows, or "", and     *)
(* whether the rows of the result are rows of that table.                     *)

\* An editable result shows each row of its table at most once: its columns are those they are
\* said to be, its key tells the rows of the table apart, and all of the key is shown.  No cell
\* names a column, or a column that one refers to, that it does not show (edit_query, result_cells).
EsSaysWhatIsShown ==
    esTarget # EsUnread =>
        /\ esTarget.reason = "" =>
               /\ esCase.rows
               /\ \A i \in DOMAIN esCase.outputs : esTarget.sources[i] \in {"", esCase.origins[i]}
               /\ \E i \in DOMAIN esCase.table.indexes :
                      LET index == esCase.table.indexes[i] IN
                      index.whole /\ index.columns = esTarget.keys /\ NotNull(esCase.table, index.columns)
               /\ esTarget.keys \subseteq Range(esCase.origins)
               /\ \A i, j \in DOMAIN esTarget.sources : esTarget.sources[i] = esTarget.sources[j] => i = j \/ esTarget.sources[i] = ""
        /\ \A i \in DOMAIN esCells :
               /\ esCells[i].source \in {"", esCase.origins[i]}
               /\ esCells[i].foreign # "" =>
                      {f \in esCase.table.foreign : esCase.origins[i] \in Range(f.from)}
                      \in {{f} : f \in {g \in esCase.table.foreign : Len(g.from) = 1 /\ g.to = esCells[i].foreign}}

EsTypeOK ==
    /\ esTarget.reason \in {"unread", "", "shape", "duplicate", "keys"}
    /\ esTarget.keys \subseteq ColumnNames(esCase.table)
    /\ Len(esCells) \in {0, Len(esCase.outputs)}
=============================================================================
