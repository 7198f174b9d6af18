------------------------------ MODULE LogColumns ------------------------------
(***************************************************************************)
(* From the sensor list to the columns of a trip: the loader               *)
(* (autopid_config.c), the column provider (autopid.c), the producers that *)
(* record values (poll_log.c, autopid.c) and the wide table of the writer  *)
(* (csv_logger.c).  A name is cut to what a column holds and cleaned for   *)
(* the header; a value stands for the row that recorded it.  The list does *)
(* not change here: PidTable is about the moments when it does.            *)
(***************************************************************************)
EXTENDS Naturals, SequencesExt

CONSTANTS
    Entries,        \* what a list may hold: [kind, name, how]
    MaxEntries,     \* bound: entries of a list
    MaxCalc,        \* AUTOPID_MAX_CALCULATED
    MaxCols,        \* CSV_WIDE_MAX_COLS
    Cut, Clean      \* a name as a column holds it, and as the header shows it

VARIABLES
    file,           \* auto_pid.json and car_data.json, in the loader's order
    std, specific,  \* standard_pids and car_specific are "enable"
    open, cols,     \* a trip is open; its columns, csv_cols
    unmatched,      \* csv_cols_unmatched is above 0
    drops           \* csv_pending_drops is above 0

vars == <<file, std, specific, open, cols, unmatched, drops>>

None == "none"                      \* the name of an entry that has none
Asked == {"custom", "std", "specific"}
Kinds == <<"custom", "std", "specific", "filter", "vfilter", "calc">>
Place(k) == CHOOSE i \in DOMAIN Kinds : Kinds[i] = k

\* how: on and decodes, on and never decodes, switched off, not an object
\* (of a filter: its frame id does not parse).
Lists ==
    {f \in UNION {[1 .. n -> Entries] : n \in 0 .. MaxEntries} :
        \A i, j \in DOMAIN f : i < j => Place(f[i].kind) <= Place(f[j].kind)}

Row(e, name, on, decodes) ==
    [kind |-> e.kind, name |-> name, on |-> on, decodes |-> decodes]
Enabled(e) == Row(e, e.name, e.how # "off", e.how = "good")

-----------------------------------------------------------------------------
(* The loader.                                                             *)

\* An entry that is not an object is a row without a name.
CustomRow(e) == IF e.how = "bad" THEN Row(e, None, TRUE, FALSE) ELSE Enabled(e)

\* The parser is given no key for a standard row's expression.
StdRow(e) == [CustomRow(e) EXCEPT !.decodes = FALSE]

\* The profile's rows: whether car_specific is "enable" is not asked.
SpecificRow(e) == IF e.how = "bad" THEN Row(e, None, FALSE, FALSE) ELSE Enabled(e)

PidRow(e) ==
    CASE e.kind = "custom" -> CustomRow(e)
      [] e.kind = "std" -> StdRow(e)
      [] e.kind = "specific" -> SpecificRow(e)

Of(f, S) == SelectSeq(f, LAMBDA e : e.kind \in S)
Sound(s) == SelectSeq(s, LAMBDA e : e.how # "bad")
Each(Op(_), s) == [i \in DOMAIN s |-> Op(s[i])]

Filters(f) == Each(Enabled, Sound(Of(f, {"filter", "vfilter"})))

Calculated(f) ==
    LET all == Of(f, {"calc"})
    IN  Each(Enabled, Sound(SubSeq(all, 1, IF Len(all) > MaxCalc THEN MaxCalc ELSE Len(all))))

\* A list without a row for the poller is not read any further.
table ==
    IF Of(file, Asked) = <<>> THEN <<>>
    ELSE Each(PidRow, Of(file, Asked)) \o Filters(file) \o Calculated(file)

-----------------------------------------------------------------------------
(* The column provider: the rows it lists, each under its source.          *)

TypeIsOn(r) ==
    CASE r.kind = "std" -> std
      [] r.kind \in {"specific", "vfilter"} -> specific
      [] OTHER -> TRUE              \* pid_custom_en: there is a custom row

Listed(r) == TypeIsOn(r) /\ r.on

Tag(r) ==
    CASE r.kind = "std" -> "STD"
      [] r.kind \in {"filter", "vfilter"} -> "CANFLT"
      [] r.kind = "calc" -> "CALC"
      [] OTHER -> "PID"

\* Mutant: nothing is left out.
Repeats(acc, r) == FALSE

\* The name in full is looked for among names that have been cut.
Has(acc, r) == \E k \in DOMAIN acc : acc[k] = [name |-> r.name, source |-> Tag(r)]

Counted == Len(SelectSeq(table, Listed))

Filled(max) ==
    LET Put(acc, r) ==
            IF Len(acc) < max /\ Listed(r) /\ ~Has(acc, r)
            THEN Append(acc, [name |-> Cut[r.name], source |-> Tag(r)]) ELSE acc
    IN  FoldLeft(Put, <<>>, table)

-----------------------------------------------------------------------------
(* The writer's table.                                                     *)

Smaller(a, b) == IF a < b THEN a ELSE b

Built ==
    LET names == Filled(Smaller(Counted, MaxCols))
    IN  [c \in DOMAIN names |->
            [name |-> names[c].name, source |-> names[c].source, value |-> 0,
             dup |-> \E d \in DOMAIN names \ {c} : names[d].name = names[c].name]]

Header(c) == <<Clean[c.name], IF c.dup THEN c.source ELSE "">>

Matches(cs, name, source) == {c \in DOMAIN cs : cs[c].name = name /\ cs[c].source = source}

Found(cs, name, source) ==
    LET m == Matches(cs, name, source)
    IN  IF m = {} THEN 0 ELSE CHOOSE c \in m : \A d \in m : c <= d

Source(r) == IF r.kind \in Asked THEN "PID" ELSE Tag(r)

-----------------------------------------------------------------------------
Init ==
    /\ file \in Lists /\ std \in BOOLEAN /\ specific \in BOOLEAN
    /\ open = FALSE /\ cols = <<>> /\ unmatched = FALSE /\ drops = FALSE

\* The value of row i reaches its column, if it has one.
Kept(cs, i) ==
    LET at == Found(cs, Cut[table[i].name], Source(table[i]))
    IN  /\ cols' = IF at = 0 THEN cs ELSE [cs EXCEPT ![at].value = i]
        /\ unmatched' = (unmatched \/ at = 0)

\* csv_logger_record, and the writer that takes the record: without a trip it
\* builds the columns and opens one first; the record is lost when there are
\* none, when the list is locked, or when memory or the card fails.
Record(i) ==
    /\ \/ /\ open /\ Kept(cols, i) /\ UNCHANGED <<open, drops>>
       \/ /\ ~open /\ Built # <<>> /\ open' = TRUE /\ Kept(Built, i) /\ UNCHANGED drops
       \/ /\ ~open /\ drops' = TRUE /\ UNCHANGED <<open, cols, unmatched>>
    /\ UNCHANGED <<file, std, specific>>

Yields(r) == r.on /\ r.decodes

\* polllog_poll_one: a row that is on is polled, whatever its type's flag.
Polled(i) == table[i].kind \in Asked /\ Yields(table[i]) /\ Record(i)

Decodes(r) == r.kind = "filter" \/ (r.kind = "vfilter" /\ specific)

\* polllog_decode_broadcast
Broadcast(i) == Decodes(table[i]) /\ Yields(table[i]) /\ Record(i)

\* autopid_eval_calculated_channels
Evaluated(i) == table[i].kind = "calc" /\ Yields(table[i]) /\ Record(i)

\* csv_free_wide_state
Close ==
    /\ open /\ open' = FALSE /\ cols' = <<>>
    /\ UNCHANGED <<file, std, specific, unmatched, drops>>

Next == Close \/ \E i \in DOMAIN table : Polled(i) \/ Broadcast(i) \/ Evaluated(i)

Spec == Init /\ [][Next]_vars

-----------------------------------------------------------------------------
(* Properties.                                                             *)

TypeOK ==
    /\ file \in Lists /\ {std, specific, open, unmatched, drops} \subseteq BOOLEAN
    /\ Len(cols) <= MaxCols /\ (open <=> cols # <<>>)

Fits(name) == Cut[name] = name

(* A column shows values of its own channel only: the row that gave the    *)
(* value has the column's name and source (csv_find_col, csv_locf_update). *)
OwnValues ==
    \A c \in DOMAIN cols : cols[c].value # 0 =>
        LET r == table[cols[c].value]
        IN  cols[c].name = Cut[r.name] /\ cols[c].source = Source(r)

(* A record finds no column only when the profile's rows are polled with   *)
(* car_specific off, or when the list has more channels than a trip has    *)
(* columns: the provider's gates are the producers' (autopid.c:391).       *)
LossHasItsReason ==
    unmatched =>
        \/ ~specific /\ \E i \in DOMAIN table : table[i].kind = "specific"
        \/ Counted > MaxCols

(* No two columns are of one channel when its name fits a column, however  *)
(* often the list has it (autopid.c:436, 460, 486).                        *)
OneColumnEach ==
    \A c, d \in DOMAIN cols :
        (/\ c # d /\ cols[c].name = cols[d].name /\ cols[c].source = cols[d].source)
            => \E i \in DOMAIN table : ~Fits(table[i].name) /\ Cut[table[i].name] = cols[c].name

(* The header tells apart channels of one name and different sources       *)
(* (csv_build_wide_columns marks them, csv_open_new_file adds the source). *)
HeaderTellsApart ==
    \A c, d \in DOMAIN cols :
        (cols[c].name = cols[d].name /\ cols[c].source # cols[d].source)
            => Header(cols[c]) # Header(cols[d])

(* A column whose name fits belongs to a row that is switched on, and that *)
(* row's records would find it, unless it is a standard row: a channel     *)
(* that cannot record takes no column (autopid.c:391).                     *)
ColumnsAreFed ==
    \A c \in DOMAIN cols :
        cols[c].source # "STD" => \E i \in DOMAIN table :
            /\ table[i].on /\ Cut[table[i].name] = cols[c].name
            /\ Source(table[i]) = cols[c].source

-----------------------------------------------------------------------------
(* Claims the code does not keep.                                          *)

(* autopid.c:393: "no phantom all-empty columns".  The provider tags a     *)
(* standard row STD, the poller records with the tag PID, and the loader   *)
(* gives the row no expression: its column stays empty in every trip.      *)
NoPhantoms ==
    \A c \in DOMAIN cols : \E i \in DOMAIN table :
        Cut[table[i].name] = cols[c].name /\ Source(table[i]) = cols[c].source

(* docs/internals/csv_logger.md:7: "so every record that can be produced   *)
(* has a column and `cols_unmatched` stays 0".  The poller does not look   *)
(* at car_specific: the profile's rows are polled and recorded when the    *)
(* provider lists none of them.                                            *)
NoneUnmatched == ~unmatched

(* autopid.c:440: what is cut is compared with what is not.  Two entries   *)
(* of one long name make two columns, the second of them empty for good.   *)
OneColumnEachAlways ==
    \A c, d \in DOMAIN cols :
        (cols[c].name = cols[d].name /\ cols[c].source = cols[d].source) => c = d

(* Columns are matched by the raw name and shown by the clean one          *)
(* (csv_logger.c:155, 371): two names that differ in a comma alone make    *)
(* two columns of one header, and neither is given its source.             *)
HeadersDiffer ==
    \A c, d \in DOMAIN cols : Header(cols[c]) = Header(cols[d]) => cols[c].name = cols[d].name

(* A list of CAN filters alone is a list of channels; the loader returns   *)
(* before it reads them (autopid_config.c:1050).                           *)
FiltersLoad ==
    (\E i \in DOMAIN file : file[i].kind = "filter" /\ file[i].how = "good") => table # <<>>
=============================================================================
