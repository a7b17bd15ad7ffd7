----------------------------- MODULE Arguments ------------------------------
(***************************************************************************)
(* How the arguments of a Session method become the text of a command:     *)
(* the validation and quoting of src/src/client.rs, the Display of the     *)
(* typed arguments in src/src/types and src/src/extensions, and, external, *)
(* how a server reads the text back.                                       *)
(*                                                                         *)
(* A text is a sequence of characters.  A character is one that the code   *)
(* or the grammar singles out, or a string that stands for a run of others *)
(* ("x", "FLAGS").                                                         *)
(***************************************************************************)
EXTENDS Integers, Sequences, SequencesExt

CONSTANT None   \* no value

(* filter *)
Those(s, Passes(_)) == FlattenSeq([i \in DOMAIN s |-> IF Passes(s[i]) THEN <<s[i]>> ELSE <<>>])

QUOTE == "\""
BACKSLASH == "\\"
SP == " "
CR == "\r"
LF == "\n"
OPEN == "("
CLOSE == ")"

(* What a method makes an argument of; "word" is given by the method.      *)
Forms == {"word", "quoted", "unchecked", "inQuotes", "line", "set", "verbatim", "rights",
          "group"}

Arg(form, value) == [form |-> form, value |-> value]
Word(w) == Arg("word", <<w>>)
Quoted(s) == Arg("quoted", s)
Unchecked(s) == Arg("unchecked", s)
InQuotes(s) == Arg("inQuotes", s)
Line(s) == Arg("line", s)
Set(s) == Arg("set", s)
Verbatim(s) == Arg("verbatim", s)
Group(args) == Arg("group", args)

-----------------------------------------------------------------------------
(* Validation. *)

(* value.matches(..).next() *)
Has(s, chars) == \E i \in DOMAIN s : s[i] \in chars

NoquoteIsValid(s) == ~Has(s, {CR, LF})
SetIsValid(s) == ~Has(s, {SP, "\t", LF, "\f", CR})

LeafIsValid(arg) ==
    CASE arg.form \in {"quoted", "line"} -> NoquoteIsValid(arg.value)
      [] arg.form = "set"                -> SetIsValid(arg.value)
      [] OTHER                           -> TRUE

(* Error::Validate otherwise. *)
IsValid(arg) ==
    IF arg.form = "group" THEN \A i \in DOMAIN arg.value : LeafIsValid(arg.value[i])
    ELSE LeafIsValid(arg)

-----------------------------------------------------------------------------
(* Rendering. *)

(* str::replace *)
Replaced(s, char, by) ==
    FlattenSeq([i \in DOMAIN s |-> IF s[i] = char THEN by ELSE <<s[i]>>])

(* quote!: backslashes first, or those that escape a quote are escaped too *)
Escaped(s, char) == Replaced(s, char, <<BACKSLASH, char>>)
QuoteFirst(s) == <<QUOTE>> \o Escaped(Escaped(s, QUOTE), BACKSLASH) \o <<QUOTE>>
Quote(s) == <<QUOTE>> \o Escaped(Escaped(s, BACKSLASH), QUOTE) \o <<QUOTE>>

(* iter_join, with " " *)
Joined(texts) ==
    FlattenSeq([i \in DOMAIN texts |-> IF i = Len(texts) THEN texts[i] ELSE texts[i] \o <<SP>>])

(* AclModifyMode, as set_acl writes it *)
Sign(mode) ==
    CASE mode = "replace" -> <<>>
      [] mode = "add"     -> <<"+">>
      [] mode = "remove"  -> <<"-">>

(* The rights, sorted: their order is not told apart.                      *)
RightsText(rights) == SetToSeq(rights)
Rights(mode, rights) == Arg("rights", [mode |-> mode, rights |-> rights])

LeafText(arg) ==
    CASE arg.form \in {"quoted", "unchecked"} -> Quote(arg.value)
      [] arg.form = "inQuotes" -> <<QUOTE>> \o arg.value \o <<QUOTE>>
      [] arg.form = "rights"   -> Sign(arg.value.mode) \o RightsText(arg.value.rights)
      [] OTHER                 -> arg.value

GroupText(args) ==
    <<OPEN>> \o Joined([i \in DOMAIN args |-> LeafText(args[i])]) \o <<CLOSE>>

ArgText(arg) == IF arg.form = "group" THEN GroupText(arg.value) ELSE LeafText(arg)

(* The command without its tag, and the line write_line makes of it.       *)
CommandText(args) == Joined([i \in DOMAIN args |-> ArgText(args[i])])
WrittenLine(args) == CommandText(args) \o <<CR, LF>>

-----------------------------------------------------------------------------
(* The typed arguments. *)

(* AclRights::try_from(&str): what is not a right is refused.              *)
IsRights(s, letters) == \A i \in DOMAIN s : s[i] \in letters
RightsOf(s) == ToSet(s)

(* QuotaResourceName and QuotaResourceLimit                                *)
ResourceName(s) ==
    CASE s = <<"STORAGE">> -> [kind |-> "Storage", name |-> <<>>]
      [] s = <<"MESSAGE">> -> [kind |-> "Message", name |-> <<>>]
      [] OTHER             -> [kind |-> "Atom", name |-> s]
ResourceText(resource) ==
    CASE resource.kind = "Storage" -> <<"STORAGE">>
      [] resource.kind = "Message" -> <<"MESSAGE">>
      [] resource.kind = "Atom"    -> resource.name
Limit(resource, amount) == Verbatim(ResourceText(resource) \o <<SP, amount>>)

(* Flag: one of the system's, or a custom text                             *)
SystemFlags == {"Seen", "Answered", "Flagged", "Deleted", "Draft", "Recent", "*"}
FlagOf(s) ==
    IF Len(s) = 2 /\ s[1] = BACKSLASH /\ s[2] \in SystemFlags
    THEN [system |-> TRUE, name |-> <<s[2]>>]
    ELSE [system |-> FALSE, name |-> s]
FlagText(flag) == IF flag.system THEN <<BACKSLASH>> \o flag.name ELSE flag.name
Recent == [system |-> TRUE, name |-> <<"Recent">>]

(* MetadataDepth *)
DepthText(depth) ==
    CASE depth = "Zero"     -> "0"
      [] depth = "One"      -> "1"
      [] depth = "Infinity" -> "infinity"

(* format_as_cmd_list_item: an entry and its value, NIL to remove it.      *)
MetadataItem(entry, value) ==
    <<Quoted(entry), IF value = None THEN Word("NIL") ELSE Quoted(value)>>

(* SortCriterion: "REVERSE" may come before one.                           *)
Criterion(reversed, key) == IF reversed THEN <<"REVERSE", SP, key>> ELSE <<key>>
Criteria(criteria) ==
    IF criteria = <<>> THEN Verbatim(<<>>)
    ELSE Group([i \in DOMAIN criteria |-> Verbatim(criteria[i])])
Charset(charset) ==
    CASE charset.kind = "Utf8"    -> Word("UTF-8")
      [] charset.kind = "UsAscii" -> Word("US-ASCII")
      [] charset.kind = "Custom"  -> Verbatim(charset.name)

-----------------------------------------------------------------------------
(* The server's side: lines are split at LF; a line is a sequence of       *)
(* tokens, which are atoms, strings and parentheses.                       *)
Atom(s) == [token |-> "atom", text |-> s]
Str(s) == [token |-> "string", text |-> s]
Mark(c) == [token |-> "mark", text |-> <<c>>]
Garbled == [token |-> "garbled", text |-> <<>>]

At(mode, text, tokens) == [mode |-> mode, text |-> text, tokens |-> tokens]
Scan(scan, c) ==
    LET more == Append(scan.text, c)
        closed == IF scan.mode = "atom" THEN Append(scan.tokens, Atom(scan.text)) ELSE scan.tokens
        inside == CASE c = BACKSLASH -> At("escaped", scan.text, scan.tokens)
                    [] c = QUOTE     -> At("gap", <<>>, Append(scan.tokens, Str(scan.text)))
                    [] OTHER         -> At("string", more, scan.tokens)
        outside == CASE c = SP              -> At("gap", <<>>, closed)
                     [] c \in {OPEN, CLOSE} -> At("gap", <<>>, Append(closed, Mark(c)))
                     [] c = QUOTE           -> At("string", <<>>, closed)
                     [] OTHER               -> At("atom", more, scan.tokens)
    IN CASE scan.mode = "escaped" -> At("string", more, scan.tokens)
         [] scan.mode = "string"  -> inside
         [] OTHER                 -> outside

Tokens(line) ==
    LET end == FoldLeft(Scan, At("gap", <<>>, <<>>), line)
    IN CASE end.mode = "gap"  -> end.tokens
         [] end.mode = "atom" -> Append(end.tokens, Atom(end.text))
         [] OTHER             -> Append(end.tokens, Garbled)

(* SETACL's rights are read from the last token.                           *)
ReadRights(atom) ==
    LET mode == IF atom[1] = "+" THEN "add" ELSE IF atom[1] = "-" THEN "remove" ELSE "replace"
        rights == IF mode = "replace" THEN atom ELSE Tail(atom)
    IN [token |-> "rights", mode |-> mode, rights |-> RightsOf(rights)]

Understood(tokens) ==
    IF tokens # <<>> /\ tokens[1] = Atom(<<"SETACL">>) /\ Last(tokens).token = "atom"
    THEN Append(Front(tokens), ReadRights(Last(tokens).text))
    ELSE tokens

(* What the caller of a method means by an argument.                       *)
LeafMeaning(arg) ==
    CASE arg.form \in {"quoted", "unchecked", "inQuotes"} -> <<Str(arg.value)>>
      [] arg.form = "set"    -> <<Atom(arg.value)>>
      [] arg.form = "rights" -> <<[token |-> "rights", mode |-> arg.value.mode,
                                   rights |-> arg.value.rights]>>
      [] OTHER               -> Tokens(arg.value)

ArgMeaning(arg) ==
    IF arg.form = "group"
    THEN <<Mark(OPEN)>> \o FlattenSeq([i \in DOMAIN arg.value |-> LeafMeaning(arg.value[i])])
                        \o <<Mark(CLOSE)>>
    ELSE LeafMeaning(arg)

Meaning(args) == FlattenSeq([i \in DOMAIN args |-> ArgMeaning(args[i])])
=============================================================================
