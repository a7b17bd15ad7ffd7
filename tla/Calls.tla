------------------------------- MODULE Calls --------------------------------
(***************************************************************************)
(* One call of a method of Session, from the caller's arguments to the     *)
(* value it is given back: src/src/client.rs over Arguments, Methods and   *)
(* Replies.  The connection is in step and loses nothing here (see         *)
(* Connection), and responses no parser wants are left out (see Session).  *)
(***************************************************************************)
EXTENDS Methods, Replies

CONSTANTS Strings,      \* names, identifiers and the like: arbitrary texts
          Sets,         \* sequence sets
          Queries,      \* the queries of FETCH: arbitrary texts
          Atoms,        \* what the caller writes in the syntax of IMAP
          Letters,      \* the letters and digits that name access rights
          RightsTexts,  \* the rights the caller writes
          Entries,      \* names of annotations
          Sizes,        \* the sizes of their values, and 0 for no annotation
          Capable,      \* what the caller asks has_str for
          Data,         \* the data of each kind of response
          Codes,        \* the codes of a tagged OK, None among them
          MaxReply      \* bound on the responses in a reply

IsText(s) == s \in Seq(ToSet(s))
LongEntries(size) == [name |-> "LONGENTRIES", value |-> size]

(* What the caller writes in the syntax of IMAP is a whole number of its   *)
(* tokens, on one line: no literals.  A sequence set has no quotes or      *)
(* parentheses, and the letters of the rights no other meaning.            *)
ASSUME CallsAssumption ==
    /\ \A s \in Strings \cup Sets \cup Queries \cup Atoms \cup Entries \cup RightsTexts : IsText(s)
    /\ \A s \in Atoms : ~Has(s, {CR, LF}) /\ Garbled \notin ToSet(Tokens(s))
    /\ \A s \in Sets : ~Has(s, {QUOTE, OPEN, CLOSE})
    /\ Letters \cap {SP, QUOTE, OPEN, CLOSE, CR, LF, "+", "-"} = {}
    /\ \A n \in Sizes : ToString(n) \notin {QUOTE, CR, LF}
    /\ IsFiniteSet(Entries) /\ Sizes \subseteq Nat
    /\ None \notin Nat /\ \A n \in Sizes : None # LongEntries(n)
    /\ \A q \in Data.quota : q # None /\ Quota(q) # None

(* The parts of the data have their types.  A message has one date; the    *)
(* code of an untagged OK is none of the items of STATUS; the names of     *)
(* capabilities that differ in case alone are IMAP4rev1 and AUTH=, of      *)
(* which the first stands alone and the second before a mechanism.         *)
IsCapability(s) ==
    /\ IsText(s)
    /\ \A j \in DOMAIN s : \A word \in SameLetters :
           s[j] \in word => j = 1 /\ (Len(s) = 1 <=> "IMAP4rev1" \in word)

ASSUME DataAssumption ==
    /\ \A m \in Data.fetch :
           /\ IsText(m.attrs)
           /\ \A a \in ToSet(m.attrs) :
                  /\ a.item = "FLAGS" => IsText(a.data)
                  /\ a.item \in {"UID", "RFC822.SIZE"} => a.data # None
           /\ \A a, b \in {a \in ToSet(m.attrs) : a.item = "INTERNALDATE"} : a.data = b.data
    /\ \A v \in Data.vanished :
           /\ IsText(v) /\ v # <<>>
           /\ \A r \in ToSet(v) : r.first \in Nat /\ r.last \in Nat
    /\ Data.expunge \subseteq Nat
    /\ \A f \in Data.flags : IsText(f)
    /\ \A c \in Data.ok :
           /\ c # None /\ c.name \notin {"MESSAGES", "RECENT"}
           /\ c.name = "PERMANENTFLAGS" => IsText(c.value)
    /\ \A s \in Data.status : IsText(s.items)
    /\ \A names \in Data.capability :
           IsText(names) /\ \A s \in ToSet(names) : IsCapability(s)
    /\ \A s \in Capable : IsCapability(s)
    /\ \A a \in Data.acl : IsText(a.acls)
    /\ None \notin Data.acl \cup Data.listRights \cup Data.myRights

VARIABLES
    phase,      \* "ready", "sent", "heard", or "returned"
    call,       \* the call: its method and command, and what its parser is told
    wire,       \* what is under way to the server
    heard,      \* the commands the server has read
    held,       \* the size of each annotation the server holds of those asked for
    reply,      \* the responses so far
    code,       \* the code of the tagged response
    value       \* what the call returned

vars == <<phase, call, wire, heard, held, reply, code, value>>

NoCall == [method |-> "none", command |-> <<>>, mailbox |-> <<>>, maxsize |-> None]

Init ==
    /\ phase = "ready" /\ call = NoCall
    /\ wire = <<>> /\ heard = <<>> /\ held = <<>>
    /\ reply = <<>> /\ code = None /\ value = Missing

-----------------------------------------------------------------------------
(* The call goes out, unless an argument is not valid or there is nothing  *)
(* to ask for.                                                             *)
Refused == [ok |-> FALSE, value |-> "validate"]

Issue(request) ==
    /\ call' = request
    /\ LET nothing == \E i \in DOMAIN request.command : AsksNothing(request.command[i])
           invalid == \E i \in DOMAIN request.command : ~IsValid(request.command[i])
       IN \/ nothing /\ phase' = "returned" /\ value' = Fetches(<<>>) /\ UNCHANGED wire
          \/ ~nothing /\ invalid /\ phase' = "returned" /\ value' = Refused /\ UNCHANGED wire
          \/ /\ ~nothing /\ ~invalid
             /\ phase' = "sent" /\ wire' = WrittenLine(request.command) /\ UNCHANGED value
    /\ UNCHANGED <<heard, reply, code>>

Call(method, command) ==
    /\ phase = "ready"
    /\ Issue([method |-> method, command |-> command, mailbox |-> <<>>, maxsize |-> None])
    /\ UNCHANGED held

Short == {s \in Strings : Len(s) <= 1}
Options(texts) == {None} \cup texts

CallPlain ==
    \/ Call("noop", Noop)
    \/ Call("logout", Logout)
    \/ Call("check", Check)
    \/ Call("close", Close)
    \/ Call("capability", Capability)
    \/ Call("expunge", Expunge)

CallMailbox ==
    \E mailbox \in Strings :
        \/ Call("select", Select(mailbox))
        \/ Call("examine", Examine(mailbox))
        \/ Call("create", Create(mailbox))
        \/ Call("delete", Delete(mailbox))
        \/ Call("subscribe", Subscribe(mailbox))
        \/ Call("unsubscribe", Unsubscribe(mailbox))
        \/ Call("get_acl", GetAcl(mailbox))
        \/ Call("my_rights", MyRights(mailbox))
        \/ Call("get_quota", GetQuota(mailbox))
        \/ Call("get_quota_root", GetQuotaRoot(mailbox))

CallTwoNames ==
    \E s, t \in Short :
        \/ Call("login", Login(s, t))
        \/ Call("rename", Rename(s, t))
        \/ Call("delete_acl", DeleteAcl(s, t))
        \/ Call("list_rights", ListRights(s, t))
        \/ \E rights \in RightsTexts, mode \in {"replace", "add", "remove"} :
               /\ IsRights(rights, Letters)
               /\ Call("set_acl", SetAcl(s, t, RightsOf(rights), mode))

CallMessages ==
    \E set \in Sets :
        \/ \E query \in Queries : \/ Call("fetch", Fetch(set, query))
                                  \/ Call("uid_fetch", UidFetch(set, query))
        \/ \E mailbox \in Strings : \/ Call("mv", Mv(set, mailbox))
                                    \/ Call("uid_mv", UidMv(set, mailbox))
        \/ \E atom \in Atoms : \/ Call("store", Store(set, atom))
                               \/ Call("uid_store", UidStore(set, atom))
                               \/ Call("copy", Copy(set, atom))
                               \/ Call("uid_copy", UidCopy(set, atom))
        \/ Call("uid_expunge", UidExpunge(set))

CallLists ==
    \/ \E reference \in Options(Short), pattern \in Options(Atoms) :
           \/ Call("list", List(reference, pattern))
           \/ Call("lsub", Lsub(reference, pattern))
           \/ \E items \in Atoms :
                  Call("list_status", ListStatusOf(reference, pattern, items))
    \/ \E mailbox \in Short, items \in Atoms :
           /\ phase = "ready"
           /\ Issue([method |-> "status", command |-> Status(mailbox, items),
                     mailbox |-> mailbox, maxsize |-> None])
           /\ UNCHANGED held

CallSearches ==
    \E query \in Atoms :
        \/ Call("search", Search(query))
        \/ Call("uid_search", UidSearch(query))
        \/ \E keys \in {<<>>, <<Criterion(FALSE, "DATE")>>,
                        <<Criterion(TRUE, "SIZE"), Criterion(FALSE, "DATE")>>},
              charset \in {[kind |-> "Utf8", name |-> <<>>], [kind |-> "UsAscii", name |-> <<>>],
                           [kind |-> "Custom", name |-> <<"KOI8-R">>]} :
               \/ Call("sort", Sort(keys, charset, query))
               \/ Call("uid_sort", UidSort(keys, charset, query))

(* The caller names a right, a flag or a resource by a text.               *)
CallQuota ==
    \E root \in Short, name \in {<<"STORAGE">>, <<"MESSAGE">>} \cup Atoms :
        Call("set_quota", SetQuota(root, <<Limit(ResourceName(name), "10")>>))
CallAppend ==
    \E mailbox \in Short, flag \in {<<BACKSLASH, "Recent">>, <<BACKSLASH, "Seen">>} \cup Atoms,
       date \in {None, <<"1-Jan-2020">>} :
        Call("append", AppendTo(mailbox, <<FlagOf(flag)>>, date, "{9}"))

CallMetadata ==
    \/ \E mailbox \in Options(Short), depth \in {"Zero", "One", "Infinity"},
          entries \in {<<e>> : e \in Entries} \cup {SetToSeq(Entries)},
          maxsize \in Options(Sizes \ {0}) :
           /\ phase = "ready"
           /\ held' \in [ToSet(entries) -> Sizes]
           /\ Issue([method |-> "get_metadata", mailbox |-> <<>>, maxsize |-> maxsize,
                     command |-> GetMetadata(mailbox, entries, depth, maxsize)])
    \/ \E mailbox, entry \in Short, text \in Options(Short) :
           Call("set_metadata", SetMetadata(mailbox, <<[entry |-> entry, value |-> text]>>))

-----------------------------------------------------------------------------
(* The server: external.  It reads commands a line at a time ...           *)
Upto(text) == CHOOSE i \in DOMAIN text : text[i] = LF /\ \A j \in 1..(i - 1) : text[j] # LF
Hear ==
    /\ phase = "sent"
    /\ LET line == SubSeq(wire, 1, Upto(wire) - 1)
           ends == line # <<>> /\ Last(line) = CR
           rest == SubSeq(wire, Upto(wire) + 1, Len(wire))
       IN /\ heard' = Append(heard, Understood(Tokens(IF ends THEN Front(line) ELSE line)))
          /\ wire' = rest
          /\ phase' = IF rest = <<>> THEN "heard" ELSE phase
    /\ UNCHANGED <<call, held, reply, code, value>>

(* ... and answers with the responses the command asks for, in any number, *)
(* and any of the codes.  STATUS of list_status is in ListStatus.          *)
Answers ==
    CASE call.method \in {"fetch", "uid_fetch", "store", "uid_store"} -> {"fetch"}
      [] call.method \in {"select", "examine"}            -> {"exists", "recent", "flags", "ok"}
      [] call.method = "capability"                       -> {"capability"}
      [] call.method \in {"expunge", "uid_expunge"}       -> {"expunge", "vanished"}
      [] call.method \in {"list", "lsub"}                 -> {"list"}
      [] call.method = "status"                           -> {"status"}
      [] call.method \in {"search", "uid_search", "sort", "uid_sort"} -> {"ids"}
      [] call.method = "get_acl"                          -> {"acl"}
      [] call.method = "list_rights"                      -> {"listRights"}
      [] call.method = "my_rights"                        -> {"myRights"}
      [] call.method \in {"set_quota", "get_quota"}       -> {"quota"}
      [] call.method = "get_quota_root"                   -> {"quota", "quotaRoot"}
      [] OTHER                                            -> {}

(* VANISHED and EXPUNGE are not mixed.                                     *)
Mixes(kind) ==
    /\ kind \in {"expunge", "vanished"}
    /\ \E i \in DOMAIN reply : reply[i].kind \in {"expunge", "vanished"} \ {kind}

Answer ==
    /\ phase = "heard" /\ Len(reply) < MaxReply
    /\ \E kind \in Answers :
           /\ ~Mixes(kind)
           /\ \E data \in Data[kind] : reply' = Append(reply, Response(kind, data))
    /\ UNCHANGED <<phase, call, wire, heard, held, code, value>>

(* Annotations come in one or more responses; what is larger than MAXSIZE  *)
(* is held back and the largest such size reported.                        *)
TooLong(e) == call.maxsize # None /\ held[e] > call.maxsize
Sent == ToSet(FlattenSeq(All("metadata", reply)))
Unsent == {e \in DOMAIN held : held[e] > 0 /\ ~TooLong(e)} \ Sent
HeldBack == {held[e] : e \in {e \in DOMAIN held : TooLong(e)}}

AnswerMetadata ==
    /\ phase = "heard"
    /\ \E some \in (SUBSET Unsent) \ {{}} :
           reply' = Append(reply, Response("metadata", SetToSeq(some)))
    /\ UNCHANGED <<phase, call, wire, heard, held, code, value>>

CodesNow ==
    IF call.method # "get_metadata" THEN Codes
    ELSE IF HeldBack = {} THEN {None}
    ELSE {LongEntries(CHOOSE n \in HeldBack : \A m \in HeldBack : m <= n)}

-----------------------------------------------------------------------------
(* The parser each method gives the reply to.                              *)
Nothing == Value(None)
Parsed(done) ==
    CASE Answers = {"fetch"}                      -> Fetches(reply)
      [] "exists" \in Answers                     -> SelectedMailbox(reply, done)
      [] Answers = {"capability"}                 -> Capabilities(reply)
      [] "expunge" \in Answers                    -> Deleted(reply, done)
      [] Answers = {"list"}                       -> Names(reply)
      [] Answers = {"status"}                     -> StatusMailbox(call.mailbox, reply)
      [] call.method \in {"search", "uid_search"} -> IdSet(reply)
      [] call.method \in {"sort", "uid_sort"}     -> IdSeq(reply)
      [] Answers = {"acl"}                        -> AclResponse(reply)
      [] Answers = {"listRights"}                 -> ListRightsResponse(reply)
      [] Answers = {"myRights"}                   -> MyRightsResponse(reply)
      [] Answers = {"quota"}                      -> QuotaResponse(reply)
      [] "quotaRoot" \in Answers                  -> QuotaRootResponse(reply)
      [] call.method = "get_metadata"             -> MetadataResult(call.maxsize, reply, done)
      [] call.method = "append"                   -> Appended(done)
      [] OTHER                                    -> Nothing

(* The tagged response ends the reply: OK, or NO, or BYE to a LOGOUT.      *)
Ok ==
    /\ phase = "heard"
    /\ call.method = "get_metadata" => Unsent = {}
    /\ code' \in CodesNow
    /\ value' = Parsed(code')
    /\ phase' = "returned"
    /\ UNCHANGED <<call, wire, heard, held, reply>>

Fail(status) ==
    /\ phase = "heard"
    /\ value' = IF call.method = "logout" /\ status = "bye" THEN Nothing
                ELSE [ok |-> FALSE, value |-> status]
    /\ phase' = "returned"
    /\ UNCHANGED <<call, wire, heard, held, reply, code>>

(* The caller is done with the value. *)
Forget ==
    /\ phase = "returned"
    /\ phase' = "ready" /\ call' = NoCall
    /\ heard' = <<>> /\ held' = <<>> /\ reply' = <<>> /\ code' = None /\ value' = Missing
    /\ UNCHANGED wire

Next ==
    \/ CallPlain \/ CallMailbox \/ CallTwoNames \/ CallMessages \/ CallLists \/ CallSearches
    \/ CallQuota \/ CallAppend \/ CallMetadata
    \/ Hear \/ Answer \/ AnswerMetadata \/ Ok \/ Fail("no") \/ Fail("bye")
    \/ Forget

Spec == Init /\ [][Next]_vars

-----------------------------------------------------------------------------
(* Properties.                                                             *)

(* What the code takes from the caller unchecked: line breaks in what is   *)
(* written as it is (the sets of STORE, COPY, MOVE and UID EXPUNGE), and   *)
(* in what is only quoted (the names of RENAME, SUBSCRIBE, UNSUBSCRIBE,    *)
(* LIST and LSUB); APPEND puts the mailbox between quotes as it is, and    *)
(* SETACL writes no rights as nothing.                                     *)
Unguarded(arg) ==
    \/ arg.form \in {"unchecked", "verbatim"} /\ Has(arg.value, {CR, LF})
    \/ arg.form = "inQuotes" /\ Has(arg.value, {QUOTE, BACKSLASH, CR, LF})
    \/ arg.form = "rights" /\ ArgText(arg) = <<>>

(* The server reads one command, and each argument in it as the caller     *)
(* meant it: no text ends its string early or starts a second command      *)
(* (validate_str and its variants, quote!, and the Display of the typed    *)
(* arguments).                                                             *)
HeardAsMeant ==
    \/ heard = <<>> \/ phase = "sent"
    \/ \E i \in DOMAIN call.command : Unguarded(call.command[i])
    \/ heard = <<Meaning(call.command)>>

Count(kind) == Cardinality({i \in DOMAIN reply : reply[i].kind = kind})

(* A value that stands for one response is given only if the server sent   *)
(* just that one, and "invalid" only if it did not: GETACL, LISTRIGHTS,    *)
(* MYRIGHTS, GETQUOTAROOT, and QUOTA, which may have none                  *)
(* (parse_until_done and its optional variant).                            *)
OneAnswer ==
    phase = "returned" =>
        /\ \A kind \in Answers \cap {"acl", "listRights", "myRights", "quotaRoot"} :
               IF value.ok THEN Count(kind) = 1 ELSE value.value = "invalid" => Count(kind) # 1
        /\ Answers = {"quota"} =>
               IF value.ok THEN Count("quota") = IF value.value = None THEN 0 ELSE 1
               ELSE value.value = "invalid" => Count("quota") > 1

(* Each annotation the server holds of those asked for is in the value, or *)
(* is no larger than the size the value reports as held back, however the  *)
(* server splits its answer (get_metadata).                                *)
MetadataIsAccountedFor ==
    phase = "returned" /\ call.method = "get_metadata" /\ value.ok =>
        \A e \in DOMAIN held :
            \/ held[e] = 0
            \/ e \in ToSet(value.value.metadata)
            \/ value.value.missed # None /\ held[e] <= value.value.missed

(* An accessor gives what the server sent under one of its names, and      *)
(* nothing only if there was no data under any; the flags are those of all *)
(* FLAGS items and no others.                                              *)
Gives(given, attrs, items) ==
    LET sent == {a.data : a \in {a \in ToSet(attrs) : a.item \in items}} \ {None}
    IN IF given = None THEN sent = {} ELSE given \in sent
Readable(attrs) == Those(attrs, LAMBDA a : a.item = "INTERNALDATE" /\ a.data # "no date")
FetchIsAsSent(fetch, attrs) ==
    /\ Gives(Header(fetch), attrs, {"BODY[HEADER]", "RFC822.HEADER"})
    /\ Gives(Body(fetch), attrs, {"BODY[]", "RFC822"})
    /\ Gives(Text(fetch), attrs, {"BODY[TEXT]", "RFC822.TEXT"})
    /\ Gives(Section(fetch, "BODY[1]"), attrs, {"BODY[1]"})
    /\ Gives(fetch.uid, attrs, {"UID"})
    /\ Gives(fetch.size, attrs, {"RFC822.SIZE"})
    /\ Gives(ModSeq(fetch), attrs, {"MODSEQ"})
    /\ Gives(Envelope(fetch), attrs, {"ENVELOPE"})
    /\ Gives(BodyStructure(fetch), attrs, {"BODYSTRUCTURE"})
    /\ Gives(GmailLabels(fetch), attrs, {"X-GM-LABELS"})
    /\ Gives(InternalDate(fetch), Readable(attrs), {"INTERNALDATE"})
    /\ LET lists == {a.data : a \in {a \in ToSet(attrs) : a.item = "FLAGS"}}
       IN ToSet(fetch.flags) = {FlagOf(flag) : flag \in UNION {ToSet(list) : list \in lists}}

(* The numbers a Deleted gives are those of each response in the order     *)
(* they were sent, and of each range of a VANISHED its numbers from the    *)
(* least to the greatest: numbers sent twice are given twice.  As sequence *)
(* numbers it gives those of EXPUNGE and no UIDs.                          *)
Ascending(S) == [i \in 1..Cardinality(S) |->
                    CHOOSE x \in S : Cardinality({y \in S : y < x}) = i - 1]
Listed(range) == Ascending(range.first..range.last)
Removed(r) == IF r.kind = "vanished" THEN FlattenSeq(Mapped(Listed, r.data)) ELSE <<r.data>>
DeletedIsAsSent(deleted) ==
    /\ IsEmpty(deleted) <=> reply = <<>>
    /\ Iterated(deleted) = FlattenSeq(Mapped(Removed, reply))
    /\ Seqs(deleted) = All("expunge", reply)

(* Each field of a mailbox is the latest the server sent about it, its     *)
(* flags and permanent flags are all that were sent, in order, and it is   *)
(* read-only if and only if SELECT or EXAMINE ended with READ-ONLY.        *)
Latest(kind, default) ==
    IF All(kind, reply) = <<>> THEN default ELSE Last(All(kind, reply))
Items ==
    LET Of(r) == CASE r.kind = "ok"                                          -> <<r.data>>
                   [] r.kind = "status" /\ r.data.mailbox = call.mailbox     -> r.data.items
                   [] OTHER                                                  -> <<>>
    IN FlattenSeq(Mapped(Of, reply))
LatestItem(name, default) ==
    LET its == Those(Items, LAMBDA a : a.name = name)
    IN IF its = <<>> THEN default ELSE Last(its).value
FlagsIn(r) == IF r.kind = "flags" THEN Mapped(FlagOf, r.data) ELSE <<>>
PermanentFlagsIn(r) ==
    IF r.kind = "ok" /\ r.data.name = "PERMANENTFLAGS" THEN Mapped(FlagOf, r.data.value) ELSE <<>>
MailboxIsAsSent(mailbox) ==
    /\ mailbox.exists = Latest("exists", LatestItem("MESSAGES", 0))
    /\ mailbox.recent = Latest("recent", LatestItem("RECENT", 0))
    /\ mailbox.unseen = LatestItem("UNSEEN", None)
    /\ mailbox.uid_next = LatestItem("UIDNEXT", None)
    /\ mailbox.uid_validity = LatestItem("UIDVALIDITY", None)
    /\ mailbox.highest_mod_seq = LatestItem("HIGHESTMODSEQ", None)
    /\ mailbox.flags = FlattenSeq(Mapped(FlagsIn, reply))
    /\ mailbox.permanent_flags = FlattenSeq(Mapped(PermanentFlagsIn, reply))
    /\ mailbox.is_read_only <=>
           call.method \in {"select", "examine"} /\ code # None /\ code.name = "READ-ONLY"

(* has_str finds what the server advertised, and only that.                *)
CapabilitiesAreAsSent(capabilities) ==
    \A s \in Capable :
        HasStr(capabilities, s) <=>
            \E i \in DOMAIN reply : \E t \in ToSet(reply[i].data) :
                Len(s) = Len(t) /\ \A j \in DOMAIN s : EqIgnoreCase(s[j], t[j])

(* A right is granted if the server named it, and only then; of an access  *)
(* control list, to each identifier of it.                                 *)
RightsAreAsSent(rights, letters) == \A r \in Letters : Grants(rights, r) <=> r \in ToSet(letters)
AclIsAsSent(acls, sent) ==
    /\ Len(acls) = Len(sent)
    /\ \A i \in DOMAIN sent :
           acls[i].identifier = sent[i].identifier /\ RightsAreAsSent(acls[i].rights, sent[i].rights)

(* What the caller reads from the value is what the server put into its    *)
(* reply, of these parts of it: a fetch for each response, with its number *)
(* and attributes; the messages removed; the fields of a mailbox; the      *)
(* capabilities; the rights of GETACL, LISTRIGHTS and MYRIGHTS; and the    *)
(* numbers of a SORT, in their order.                                      *)
ValueIsAsSent ==
    phase = "returned" /\ value.ok =>
        CASE Answers = {"fetch"} ->
                 /\ Len(value.value) = Len(reply)
                 /\ \A i \in DOMAIN reply :
                        /\ value.value[i].message = reply[i].data.message
                        /\ FetchIsAsSent(value.value[i], reply[i].data.attrs)
          [] "expunge" \in Answers      -> DeletedIsAsSent(value.value)
          [] "exists" \in Answers \/ Answers = {"status"} -> MailboxIsAsSent(value.value)
          [] Answers = {"capability"}   -> CapabilitiesAreAsSent(value.value)
          [] call.method \in {"sort", "uid_sort"} -> value.value = FlattenSeq(All("ids", reply))
          [] Answers = {"acl"}          -> AclIsAsSent(value.value.acls, reply[1].data.acls)
          [] Answers = {"listRights"}   ->
                 /\ RightsAreAsSent(value.value.required, reply[1].data.required)
                 /\ RightsAreAsSent(value.value.optional, reply[1].data.optional)
          [] Answers = {"myRights"}     -> RightsAreAsSent(value.value.rights, reply[1].data.rights)
          [] OTHER                      -> TRUE
=============================================================================
