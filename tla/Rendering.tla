----------------------------- MODULE Rendering ------------------------------
(***************************************************************************)
(* The text a probe result becomes, and, as the reference, how the           *)
(* receivers read it back.                                                  *)
(*                                                                         *)
(*   crates/huginn-core/src/types.rs       escape_control_chars              *)
(*   crates/huginn-influx/src/writer.rs    to_line_protocol, the write URL   *)
(*   crates/huginn-web/src/prometheus.rs   render and its helpers            *)
(*   huginn/src/main.rs                    print_result                      *)
(*                                                                         *)
(* A string is a sequence of characters. LF, CR and TAB are the controls     *)
(* with a name, ESC is one of ASCII's (C0) and CSI one of the C1 range       *)
(* without; Hex has the four characters they are written as. Words the code  *)
(* itself writes and numbers are one character each. A result is the record  *)
(* of Reports, an optional field the empty sequence or one of length 1.      *)
(***************************************************************************)
EXTENDS Integers, Sequences, SequencesExt, FiniteSets, TLC

LF == "LF"
CR == "CR"
TAB == "TAB"
ESC == "ESC"
CSI == "CSI"
Controls == {LF, CR, TAB, ESC, CSI}
Backslash == "\\"
Quote == "\""

(* The numbers of the write path, in the order of render_write_path.        *)
Scalars == <<"queue_batches", "queue_bytes", "batches_written", "bytes_written",
             "batches_dropped", "bytes_dropped", "batches_rejected", "last_write">>

(* The digits of a number.                                                  *)
Digits(n) == ToString(n)

(* str::replace of a single character.                                      *)
ReplaceChar(s, c, by) ==
    FlattenSeq([i \in DOMAIN s |-> IF s[i] = c THEN by ELSE <<s[i]>>])

(* A backslash goes in front of each c.                                     *)
Protect(s, c) == ReplaceChar(s, c, <<Backslash, c>>)

Named(s) == ReplaceChar(ReplaceChar(s, LF, <<Backslash, "n">>), CR, <<Backslash, "r">>)
-----------------------------------------------------------------------------
(* escape_control_chars                                                     *)

Hex(c) == IF c = ESC THEN <<Backslash, "x", "1", "b">> ELSE <<Backslash, "x", "9", "b">>

(* Fault of EscapeControlChars: ASCII's controls only, as is_ascii_control.  *)
(* Breaks ConsoleIsInert.                                                   *)
EscapeControlCharsAscii(s) ==
    ReplaceChar(ReplaceChar(Named(s), TAB, <<Backslash, "t">>), ESC, Hex(ESC))

(* One pass: what it writes contains no control, so the order is no matter;  *)
(* a backslash that was there stays.                                        *)
EscapeControlChars(s) ==
    ReplaceChar(ReplaceChar(ReplaceChar(Named(s), TAB, <<Backslash, "t">>),
                            ESC, Hex(ESC)), CSI, Hex(CSI))
-----------------------------------------------------------------------------
(* to_line_protocol                                                         *)

(* Fault of EscapeTag: the backslash goes last. Breaks ResultsReadBack.      *)
EscapeTagBackslashLast(s) ==
    Protect(Protect(Protect(Protect(s, ","), "="), " "), Backslash)

EscapeTag(s) == Protect(Protect(Protect(Protect(s, Backslash), ","), "="), " ")

EscapeFieldStr(s) == Named(Protect(Protect(s, Backslash), Quote))

Up(r) == IF r.up THEN 1 ELSE 0

(* The optional fields: the code of an HTTP answer, the error, the readings. *)
StatusField(r) ==
    FlattenSeq([i \in DOMAIN r.status_code |->
        <<",", "status_code", "=", Digits(r.status_code[i]), "i">>])

ErrorField(r) ==
    FlattenSeq([i \in DOMAIN r.error |->
        <<",", "error", "=">> \o (<<Quote>> \o EscapeFieldStr(r.error[i]) \o <<Quote>>)])

MetricFields(r) ==
    FlattenSeq([i \in DOMAIN r.metrics |->
        <<",">> \o EscapeTag(r.metrics[i].key) \o <<"=", Digits(r.metrics[i].value)>>])

Tag(name, value) == <<",", name, "=">> \o EscapeTag(value)

ToLineProtocol(r) ==
    <<"probe_result">> \o Tag("probe_name", r.probe_name)
    \o Tag("probe_type", <<r.probe_type>>) \o Tag("target", r.target)
    \o <<" ", "up", "=", Digits(Up(r)), "i">> \o <<",", "response_ms", "=", Digits(r.response_ms)>>
    \o StatusField(r) \o ErrorField(r) \o MetricFields(r)
    \o <<" ", Digits(r.timestamp)>>
-----------------------------------------------------------------------------
(* The write URL                                                            *)

Unreserved == {"a", "b", "n", "1", "-", "_", ".", "~"}

(* The bytes of a string in UTF-8: one for a character of ASCII.            *)
Utf8(s) == ReplaceChar(s, "ae", <<"c3", "a4">>)

(* urlencode: byte by byte.                                                 *)
UrlEncode(s) ==
    LET bytes == Utf8(s)
    IN  FlattenSeq([i \in DOMAIN bytes |->
            IF bytes[i] \in Unreserved THEN <<bytes[i]>> ELSE <<"%", bytes[i]>>])

WriteQuery(influx) ==
    <<"org", "=">> \o UrlEncode(influx.org) \o <<"&", "bucket", "=">>
    \o UrlEncode(influx.bucket) \o <<"&", "precision", "=", "ms">>
-----------------------------------------------------------------------------
(* render: the lines of the exposition                                      *)

EscapeLabel(s) ==
    ReplaceChar(Protect(Protect(s, Backslash), Quote), LF, <<Backslash, "n">>)

(* A line is a header or a sample of a family. The unit of a family is left  *)
(* out: duration_seconds has the point three digits further left, and        *)
(* last_run drops the milliseconds.                                         *)
Header(name, kind) == [header |-> TRUE, name |-> name, text |-> <<kind>>]

Label(before, name, value) ==
    <<before, name, "=", Quote>> \o EscapeLabel(value) \o <<Quote>>

RenderSample(name, r, value) ==
    [header |-> FALSE, name |-> name, text |->
        Label("{", "probe", r.probe_name) \o Label(",", "type", <<r.probe_type>>)
        \o Label(",", "target", r.target) \o <<"}", Digits(value)>>]

(* render_family: no header without a sample.                               *)
RenderFamily(name, samples) ==
    IF samples = <<>> THEN <<>>
    ELSE <<Header(name, "gauge")>>
         \o [i \in DOMAIN samples |-> RenderSample(name, samples[i].r, samples[i].value)]

RenderScalar(name, kind, value) ==
    <<Header(<<name>>, kind), [header |-> FALSE, name |-> <<name>>, text |-> <<Digits(value)>>]>>

(* The characters a metric name may have; anything else becomes "_".        *)
SanitizeMetricName(key) ==
    [i \in DOMAIN key |-> IF key[i] \in {"tls_cert_expiry_days", "a", "b", "_", ":"}
                          THEN key[i] ELSE "_"]

Samples(results, Value(_)) ==
    [i \in DOMAIN results |-> [r |-> results[i], value |-> Value(results[i])]]

(* The codes of the results that have one.                                  *)
StatusSamples(results) ==
    FlattenSeq([i \in DOMAIN results |->
        [j \in DOMAIN results[i].status_code |->
            [r |-> results[i], value |-> results[i].status_code[j]]]])

(* The readings of all probes under one key, which become one family.       *)
ReadingsOf(r, key) ==
    FlattenSeq([j \in DOMAIN r.metrics |->
        IF SanitizeMetricName(r.metrics[j].key) = key
        THEN <<[r |-> r, value |-> r.metrics[j].value]>> ELSE <<>>])

Readings(results, key) == FlattenSeq([i \in DOMAIN results |-> ReadingsOf(results[i], key)])

Keys(results) ==
    UNION {{SanitizeMetricName(m.key) : m \in ToSet(r.metrics)} : r \in ToSet(results)}

(* The results in the order of their names; the numbers are those of the     *)
(* write path. The families of readings come in the order of their keys.     *)
Render(results, numbers) ==
    LET keys == SetToSeq(Keys(results))
    IN  RenderFamily(<<"success">>, Samples(results, Up))
        \o RenderFamily(<<"duration_seconds">>, Samples(results, LAMBDA r : r.response_ms))
        \o RenderFamily(<<"http_status_code">>, StatusSamples(results))
        \o RenderFamily(<<"last_run">>, Samples(results, LAMBDA r : r.timestamp))
        \o FlattenSeq([k \in DOMAIN keys |-> RenderFamily(keys[k], Readings(results, keys[k]))])
        \o FlattenSeq([n \in DOMAIN Scalars |->
               RenderScalar(Scalars[n],
                            IF n \in 3..7 THEN "counter" ELSE "gauge", numbers[n])])
-----------------------------------------------------------------------------
(* print_result without --output json: the strings of a result on a         *)
(* terminal. The code of an HTTP answer is shown before an error.           *)
Console(r) ==
    r.probe_name \o <<r.probe_type, Digits(r.response_ms)>>
    \o (IF r.status_code # <<>> THEN <<"HTTP", Digits(r.status_code[1])>>
        ELSE FlattenSeq(r.error))
-----------------------------------------------------------------------------
(***************************************************************************)
(* Reading. In a format, the escape makes one of `special` the plain         *)
(* character and stands for itself before any other; a quote opens and       *)
(* closes a string where strings are allowed (in line protocol: after the    *)
(* blank); a separator outside a string ends a word, and one of `ends` the   *)
(* record. A reader has the words so far and the one it is in; it is where   *)
(* no strings are, outside or inside of one, and behind an escape or not.    *)
(***************************************************************************)
LineFormat == [escape |-> Backslash, special |-> {Backslash, Quote, ",", "=", " "},
               separators |-> {",", "=", " "}, ends |-> {LF}, place |-> "no strings"]
LabelFormat == [escape |-> Backslash, special |-> {Backslash, Quote},
                separators |-> {",", "=", "{", "}"}, ends |-> {LF}, place |-> "outside"]

Reader(words, word, place, behind) ==
    [words |-> words, word |-> word, place |-> place, behind |-> behind]

ReadPlain(format, r, c) ==
    IF c = Quote /\ r.place # "no strings"
      THEN Reader(r.words, r.word, IF r.place = "inside" THEN "outside" ELSE "inside", FALSE)
    ELSE IF c \in format.separators /\ r.place # "inside"
      THEN Reader(Append(r.words, r.word), <<>>, IF c = " " THEN "outside" ELSE r.place, FALSE)
    ELSE Reader(r.words, Append(r.word, c), r.place, FALSE)

ReadChar(format, r, c) ==
    IF r.behind
      THEN Reader(r.words, r.word \o IF c \in format.special THEN <<c>> ELSE <<format.escape, c>>,
                  r.place, FALSE)
    ELSE IF c = format.escape THEN Reader(r.words, r.word, r.place, TRUE)
    ELSE ReadPlain(format, r, c)

ReadFrom(format, start, record) ==
    LET read[i \in 0 .. Len(record)] ==
            IF i = 0 THEN start ELSE ReadChar(format, read[i - 1], record[i])
    IN  read[Len(record)]

(* The words of a record; nothing if the record is cut or left open.        *)
ReadWords(format, record) ==
    LET end == ReadFrom(format, Reader(<<>>, <<>>, format.place, FALSE), record)
    IN  IF ToSet(record) \cap format.ends # {} \/ end.place = "inside" \/ end.behind
          THEN <<>>
          ELSE Append(end.words, end.word)

(* A line of line protocol says of the result what the result is.           *)
LineReadsBack(r) ==
    ReadWords(LineFormat, ToLineProtocol(r))
    = << <<"probe_result">> >> \o << <<"probe_name">>, r.probe_name >>
      \o << <<"probe_type">>, <<r.probe_type>> >> \o << <<"target">>, r.target >>
      \o << <<"up">>, <<Digits(Up(r)), "i">> >>
      \o << <<"response_ms">>, <<Digits(r.response_ms)>> >>
      \o FlattenSeq([i \in DOMAIN r.status_code |->
             << <<"status_code">>, <<Digits(r.status_code[i]), "i">> >>])
      \o FlattenSeq([i \in DOMAIN r.error |-> << <<"error">>, r.error[i] >>])
      \o FlattenSeq([i \in DOMAIN r.metrics |->
             << r.metrics[i].key, <<Digits(r.metrics[i].value)>> >>])
      \o << <<Digits(r.timestamp)>> >>

SampleReadsBack(r, value, line) ==
    ReadWords(LabelFormat, line.text)
    = << <<>> >> \o << <<"probe">>, r.probe_name >> \o << <<"type">>, <<r.probe_type>> >>
      \o << <<"target">>, r.target >> \o << <<Digits(value)>> >>

(* Each family has one header, its samples right behind it.                  *)
HeadersAreRight(text) ==
    /\ \A i \in DOMAIN text :
          text[i].header \/ (i > 1 /\ text[i - 1].name = text[i].name)
    /\ \A i, j \in DOMAIN text :
          text[i].header /\ text[j].header /\ text[i].name = text[j].name => i = j

(* The samples of a family are those of the results that have such a value   *)
(* and say so, one series per result; values: [results -> sets of values].   *)
Shows(text, name, values) ==
    LET lines == {i \in DOMAIN text : text[i].name = name /\ ~text[i].header}
        Says(i, r) == \E v \in values[r] : SampleReadsBack(r, v, text[i])
    IN  /\ \A i \in lines : \E r \in DOMAIN values : Says(i, r)
        /\ \A r \in DOMAIN values : \A v \in values[r] :
              \E i \in lines : SampleReadsBack(r, v, text[i])
        /\ \A r \in DOMAIN values, i, j \in lines : Says(i, r) /\ Says(j, r) => i = j

ReadingsUnder(r, key) == {m.value : m \in {n \in ToSet(r.metrics) : n.key = key}}

ExpositionReadsBack(results, numbers) ==
    LET text == Render(results, numbers)
        told == ToSet(results)
    IN  /\ HeadersAreRight(text)
        /\ Shows(text, <<"success">>, [r \in told |-> {Up(r)}])
        /\ Shows(text, <<"duration_seconds">>, [r \in told |-> {r.response_ms}])
        /\ Shows(text, <<"http_status_code">>, [r \in told |-> ToSet(r.status_code)])
        /\ Shows(text, <<"last_run">>, [r \in told |-> {r.timestamp}])
        /\ \A key \in UNION {{m.key : m \in ToSet(r.metrics)} : r \in told} :
              Shows(text, key, [r \in told |-> ReadingsUnder(r, key)])

(* The query of a write URL: `%` makes any byte a plain one.                *)
QueryReadsBack(influx) ==
    LET query == WriteQuery(influx)
        format == [escape |-> "%", special |-> ToSet(query), separators |-> {"=", "&"},
                   ends |-> {}, place |-> "no strings"]
    IN  ReadWords(format, query)
        = << <<"org">>, Utf8(influx.org) >> \o << <<"bucket">>, Utf8(influx.bucket) >>
          \o << <<"precision">>, <<"ms">> >>
=============================================================================
