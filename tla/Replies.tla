------------------------------ MODULE Replies -------------------------------
(***************************************************************************)
(* What the parsers of src/src/types and src/src/extensions make of the    *)
(* responses of a reply, and how the caller reads it.  Which responses go  *)
(* to the queue instead, or end the parse, is in Session.                  *)
(*                                                                         *)
(* A reply is the sequence of its responses; a response is its kind and    *)
(* its data.  The code of the tagged response is given apart.              *)
(***************************************************************************)
EXTENDS Arguments, FiniteSets

Response(kind, data) == [kind |-> kind, data |-> data]
Mapped(Op(_), seq) == [i \in DOMAIN seq |-> Op(seq[i])]

Value(v) == [ok |-> TRUE, value |-> v]
Invalid == [ok |-> FALSE, value |-> "invalid"]
Missing == [ok |-> FALSE, value |-> "missing"]

(* parse_many_into *)
All(kind, reply) ==
    LET mine == Those(reply, LAMBDA r : r.kind = kind)
    IN Mapped(LAMBDA r : r.data, mine)
AnyOne(kind, reply) == IF All(kind, reply) = <<>> THEN Invalid ELSE Value(Head(All(kind, reply)))

(* parse_until_done, parse_until_done_optional *)
OnlyOne(kind, reply) ==
    IF Len(All(kind, reply)) = 1 THEN Value(Head(All(kind, reply))) ELSE Invalid
AtMostOne(kind, reply) ==
    IF All(kind, reply) = <<>> THEN Value(None) ELSE OnlyOne(kind, reply)

With(Op(_), result) ==
    IF result.ok /\ result.value # None THEN Value(Op(result.value)) ELSE result

-----------------------------------------------------------------------------
(* Access rights: a list of letters becomes a set of rights.               *)
AclEntry(e) == [identifier |-> e.identifier, rights |-> RightsOf(e.rights)]
Acl(a) == [mailbox |-> a.mailbox, acls |-> Mapped(AclEntry, a.acls)]
AclResponse(reply) == With(Acl, OnlyOne("acl", reply))

ListRightsOf(a) ==
    [mailbox |-> a.mailbox, identifier |-> a.identifier,
     required |-> RightsOf(a.required), optional |-> RightsOf(a.optional)]
ListRightsResponse(reply) == With(ListRightsOf, OnlyOne("listRights", reply))

MyRightsOf(a) == [mailbox |-> a.mailbox, rights |-> RightsOf(a.rights)]
MyRightsResponse(reply) == With(MyRightsOf, OnlyOne("myRights", reply))

Grants(rights, right) == right \in rights

(* Quota: the resources' names are read as in ResourceName.                *)
Resource(r) == [name |-> ResourceName(r.name), usage |-> r.usage, limit |-> r.limit]
Quota(q) == [root_name |-> q.root_name, resources |-> Mapped(Resource, q.resources)]
QuotaResponse(reply) == With(Quota, AtMostOne("quota", reply))
QuotaRootResponse(reply) ==
    With(LAMBDA root : [quota_root |-> root, quotas |-> Mapped(Quota, All("quota", reply))],
         OnlyOne("quotaRoot", reply))

-----------------------------------------------------------------------------
(* Metadata: the values of all responses, and how large the largest one is *)
(* that the server held back, if the caller limited the size.              *)
LastMetadata(reply) == IF All("metadata", reply) = <<>> THEN <<>> ELSE Last(All("metadata", reply))
Metadata(reply) == FlattenSeq(All("metadata", reply))
Missed(maxsize, code) ==
    IF maxsize # None /\ code # None /\ code.name = "LONGENTRIES" THEN code.value ELSE None
MetadataResult(maxsize, reply, code) ==
    Value([metadata |-> Metadata(reply), missed |-> Missed(maxsize, code)])

-----------------------------------------------------------------------------
(* Fetches.  An attribute is an item and its data, which may be None.      *)
LastAttr(attrs, item) ==
    LET its == Those(attrs, LAMBDA a : a.item = item)
    IN IF its = <<>> THEN None ELSE Last(its).data
FlagAttrs(attrs) ==
    LET its == Those(attrs, LAMBDA a : a.item = "FLAGS")
    IN Mapped(FlagOf, FlattenSeq(Mapped(LAMBDA a : a.data, its)))
Fetched(fetch) ==
    [message |-> fetch.message, fetch |-> fetch.attrs, flags |-> FlagAttrs(fetch.attrs),
     uid |-> LastAttr(fetch.attrs, "UID"), size |-> LastAttr(fetch.attrs, "RFC822.SIZE")]
Fetches(reply) == Value(Mapped(Fetched, All("fetch", reply)))

(* iter().find_map(..): an item without data is passed over.               *)
FindFirst(fetch, items) ==
    LET found == Those(fetch.fetch, LAMBDA a : a.item \in items)
    IN IF found = <<>> THEN None ELSE Head(found).data
FindMap(fetch, items) ==
    LET found == Those(fetch.fetch, LAMBDA a : a.item \in items /\ a.data # None)
    IN IF found = <<>> THEN None ELSE Head(found).data

ModSeq(fetch) == FindMap(fetch, {"MODSEQ"})
Header(fetch) == FindMap(fetch, {"BODY[HEADER]", "RFC822.HEADER"})
Body(fetch) == FindMap(fetch, {"BODY[]", "RFC822"})
Text(fetch) == FindMap(fetch, {"BODY[TEXT]", "RFC822.TEXT"})
Envelope(fetch) == FindMap(fetch, {"ENVELOPE"})
Section(fetch, path) == FindMap(fetch, {path})
InternalDate(fetch) ==
    LET date == FindMap(fetch, {"INTERNALDATE"}) IN IF date = "no date" THEN None ELSE date
BodyStructure(fetch) == FindMap(fetch, {"BODYSTRUCTURE"})
GmailLabels(fetch) == FindMap(fetch, {"X-GM-LABELS"})

-----------------------------------------------------------------------------
(* Deleted: the ranges of VANISHED, if any, or else EXPUNGE's numbers.     *)
ModSeqOf(code) == IF code # None /\ code.name = "HIGHESTMODSEQ" THEN code.value ELSE None
FromExpunged(v, mod_seq) == [expunged |-> v, vanished |-> <<>>, mod_seq |-> mod_seq]
FromVanished(v, mod_seq) == [expunged |-> <<>>, vanished |-> v, mod_seq |-> mod_seq]
Deleted(reply, code) ==
    LET vanished == FlattenSeq(All("vanished", reply))
    IN Value(IF vanished = <<>> THEN FromExpunged(All("expunge", reply), ModSeqOf(code))
             ELSE FromVanished(vanished, ModSeqOf(code)))

UidRange(r) == [i \in 1..(r.last - r.first + 1) |-> r.first + i - 1]
Seqs(deleted) == deleted.expunged
Uids(deleted) == FlattenSeq(Mapped(UidRange, deleted.vanished))
IsEmpty(deleted) == deleted.expunged = <<>> /\ deleted.vanished = <<>>
Iterated(deleted) == IF deleted.vanished = <<>> THEN Seqs(deleted) ELSE Uids(deleted)

(* Appended *)
Appended(code) ==
    IF code # None /\ code.name = "APPENDUID"
    THEN Value([uid_validity |-> code.value.validity, uids |-> code.value.uids])
    ELSE Value([uid_validity |-> None, uids |-> None])

-----------------------------------------------------------------------------
(* Mailboxes. *)
DefaultMailbox ==
    [flags |-> <<>>, exists |-> 0, recent |-> 0, unseen |-> None, permanent_flags |-> <<>>,
     uid_next |-> None, uid_validity |-> None, highest_mod_seq |-> None, is_read_only |-> FALSE]

(* The field that a status item or a response code is about.               *)
Field == [MESSAGES |-> "exists", RECENT |-> "recent", UNSEEN |-> "unseen", UIDNEXT |-> "uid_next",
          UIDVALIDITY |-> "uid_validity", HIGHESTMODSEQ |-> "highest_mod_seq"]
SetField(mailbox, a) ==
    IF a.name \in DOMAIN Field THEN [mailbox EXCEPT ![Field[a.name]] = a.value] ELSE mailbox

OnStatusItems(mailbox, items) == FoldLeft(SetField, mailbox, items)
OnCode(mailbox, code) ==
    IF code = None THEN mailbox
    ELSE CASE code.name = "PERMANENTFLAGS" -> [mailbox EXCEPT !.permanent_flags = @ \o Mapped(FlagOf, code.value)]
           [] code.name \in {"MESSAGES", "RECENT"} -> mailbox
           [] OTHER -> SetField(mailbox, code)
OnSelectResponse(mailbox, r) ==
    CASE r.kind = "exists" -> [mailbox EXCEPT !.exists = r.data]
      [] r.kind = "recent" -> [mailbox EXCEPT !.recent = r.data]
      [] r.kind = "flags"  -> [mailbox EXCEPT !.flags = @ \o Mapped(FlagOf, r.data)]
      [] r.kind = "ok"     -> OnCode(mailbox, r.data)
      [] OTHER             -> mailbox

(* parse_mailbox *)
SelectedMailbox(reply, code) ==
    LET read == FoldLeft(OnSelectResponse, DefaultMailbox, reply)
    IN Value([read EXCEPT !.is_read_only = code # None /\ code.name = "READ-ONLY"])

(* parse_status: the responses about the mailbox that was asked about      *)
StatusMailbox(mailbox, reply) ==
    LET its == Those(All("status", reply), LAMBDA s : s.mailbox = mailbox)
        read == FoldLeft(LAMBDA mb, s : OnStatusItems(mb, s.items), DefaultMailbox, its)
    IN IF its = <<>> THEN Missing ELSE Value(read)

-----------------------------------------------------------------------------
(* Lists. *)
Name(l) == [attributes |-> l.attributes, delimiter |-> l.delimiter, name |-> l.name]
Names(reply) == Value(Mapped(Name, All("list", reply)))
IdSet(reply) == Value(ToSet(FlattenSeq(All("ids", reply))))
IdSeq(reply) == Value(FlattenSeq(All("ids", reply)))

(* A capability is IMAP4rev1, AUTH= and a mechanism, or an atom; case      *)
(* makes no difference in the first two names.                             *)
SameLetters == {{"IMAP4rev1", "imap4rev1"}, {"AUTH=", "auth="}}
EqIgnoreCase(a, b) == a = b \/ \E word \in SameLetters : {a, b} \subseteq word

CapabilityOf(s) ==
    CASE Len(s) = 1 /\ EqIgnoreCase(s[1], "IMAP4rev1") -> [kind |-> "Imap4rev1", name |-> <<>>]
      [] Len(s) > 1 /\ EqIgnoreCase(s[1], "AUTH=")     -> [kind |-> "Auth", name |-> Tail(s)]
      [] OTHER                                         -> [kind |-> "Atom", name |-> s]
Capabilities(reply) == Value(ToSet(Mapped(CapabilityOf, FlattenSeq(All("capability", reply)))))
HasCapability(capabilities, capability) == capability \in capabilities
HasStr(capabilities, s) == HasCapability(capabilities, CapabilityOf(s))
=============================================================================
