------------------------------ MODULE Methods -------------------------------
(***************************************************************************)
(* The methods of Session in src/src/client.rs and src/src/extensions: the *)
(* arguments each makes its command of, and the parser it gives the reply  *)
(* to (see Replies).  A method is the sequence of its arguments.           *)
(***************************************************************************)
EXTENDS Arguments

Uid(command) == <<Word("UID")>> \o command

Login(username, password) == <<Word("LOGIN"), Quoted(username), Quoted(password)>>

Select(mailbox) == <<Word("SELECT"), Quoted(mailbox)>>
Examine(mailbox) == <<Word("EXAMINE"), Quoted(mailbox)>>

Fetch(set, query) == <<Word("FETCH"), Set(set), Line(query)>>
UidFetch(set, query) == Uid(Fetch(set, query))

(* Fetching an empty set asks for nothing: nothing is sent.                *)
AsksNothing(arg) == arg.form = "set" /\ arg.value = <<>>

Noop == <<Word("NOOP")>>
Logout == <<Word("LOGOUT")>>
Check == <<Word("CHECK")>>
Close == <<Word("CLOSE")>>
Capability == <<Word("CAPABILITY")>>
Expunge == <<Word("EXPUNGE")>>
UidExpunge(set) == Uid(<<Word("EXPUNGE"), Verbatim(set)>>)

Create(mailbox) == <<Word("CREATE"), Quoted(mailbox)>>
Delete(mailbox) == <<Word("DELETE"), Quoted(mailbox)>>
Rename(from, to) == <<Word("RENAME"), Unchecked(from), Unchecked(to)>>
Subscribe(mailbox) == <<Word("SUBSCRIBE"), Unchecked(mailbox)>>
Unsubscribe(mailbox) == <<Word("UNSUBSCRIBE"), Unchecked(mailbox)>>

(* The caller quotes the mailbox of a COPY, but not that of a MOVE.        *)
Store(set, query) == <<Word("STORE"), Verbatim(set), Verbatim(query)>>
UidStore(set, query) == Uid(<<Word("STORE"), Verbatim(set), Verbatim(query)>>)
Copy(set, mailbox) == <<Word("COPY"), Verbatim(set), Verbatim(mailbox)>>
UidCopy(set, mailbox) == Uid(<<Word("COPY"), Verbatim(set), Verbatim(mailbox)>>)
Mv(set, mailbox) == <<Word("MOVE"), Verbatim(set), Quoted(mailbox)>>
UidMv(set, mailbox) == Uid(<<Word("MOVE"), Verbatim(set), Quoted(mailbox)>>)

OrEmpty(option) == IF option = None THEN <<>> ELSE option
Pattern(option, default) == IF option = None THEN default ELSE Verbatim(option)

List(reference, pattern) ==
    <<Word("LIST"), Unchecked(OrEmpty(reference)), Pattern(pattern, Quoted(<<>>))>>
Lsub(reference, pattern) ==
    <<Word("LSUB"), Unchecked(OrEmpty(reference)), Pattern(pattern, Verbatim(<<>>))>>
ListStatusOf(reference, pattern, items) ==
    <<Word("LIST"), Quoted(OrEmpty(reference)), Pattern(pattern, Quoted(<<>>)),
      Word("RETURN"), Group(<<Word("STATUS"), Verbatim(items)>>)>>
Status(mailbox, items) == <<Word("STATUS"), Quoted(mailbox), Verbatim(items)>>

(* AppendCmd::finish: \Recent may not be set.  date and size are words.    *)
FlagList(flags) ==
    LET kept == Those(flags, LAMBDA flag : flag # Recent)
    IN Group([i \in DOMAIN kept |-> Verbatim(FlagText(kept[i]))])
AppendTo(mailbox, flags, date, size) ==
    <<Word("APPEND"), InQuotes(mailbox), FlagList(flags)>>
        \o (IF date = None THEN <<>> ELSE <<InQuotes(date)>>) \o <<Word(size)>>

Search(query) == <<Word("SEARCH"), Verbatim(query)>>
UidSearch(query) == Uid(<<Word("SEARCH"), Verbatim(query)>>)
Sort(criteria, charset, query) ==
    <<Word("SORT"), Criteria(criteria), Charset(charset), Verbatim(query)>>
UidSort(criteria, charset, query) ==
    Uid(<<Word("SORT"), Criteria(criteria), Charset(charset), Verbatim(query)>>)

SetAcl(mailbox, identifier, rights, mode) ==
    <<Word("SETACL"), Quoted(mailbox), Quoted(identifier), Rights(mode, rights)>>
DeleteAcl(mailbox, identifier) == <<Word("DELETEACL"), Quoted(mailbox), Quoted(identifier)>>
GetAcl(mailbox) == <<Word("GETACL"), Quoted(mailbox)>>
ListRights(mailbox, identifier) == <<Word("LISTRIGHTS"), Quoted(mailbox), Quoted(identifier)>>
MyRights(mailbox) == <<Word("MYRIGHTS"), Quoted(mailbox)>>

SetQuota(root, limits) == <<Word("SETQUOTA"), Quoted(root), Group(limits)>>
GetQuota(root) == <<Word("GETQUOTA"), Quoted(root)>>
GetQuotaRoot(mailbox) == <<Word("GETQUOTAROOT"), Quoted(mailbox)>>

GetMetadata(mailbox, entries, depth, maxsize) ==
    LET size == IF maxsize = None THEN <<>> ELSE <<Word("MAXSIZE"), Word(ToString(maxsize))>>
    IN <<Word("GETMETADATA"), Group(<<Word("DEPTH"), Word(DepthText(depth))>> \o size),
         Quoted(OrEmpty(mailbox)), Group([i \in DOMAIN entries |-> Quoted(entries[i])])>>
SetMetadata(mailbox, annotations) ==
    <<Word("SETMETADATA"), Quoted(mailbox),
      Group(FlattenSeq([i \in DOMAIN annotations |->
                            MetadataItem(annotations[i].entry, annotations[i].value)]))>>
=============================================================================
