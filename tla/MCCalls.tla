------------------------------ MODULE MCCalls -------------------------------
(* Calls on small inputs: the characters the code singles out, in texts of *)
(* at most two, and for each kind of response data of each shape that the  *)
(* parsers treat differently.                                              *)
EXTENDS Calls

Characters == {"x", QUOTE, BACKSLASH, SP, CR, LF}
SmallStrings == {<<>>} \cup {<<c>> : c \in Characters} \cup {<<c, d>> : c, d \in Characters}
SmallSets == {<<>>, <<"1:*">>, <<"1", SP, "2">>, <<"1", LF>>}
SmallQueries == {<<"FLAGS">>, <<OPEN, "UID", SP, "BODY[]", CLOSE>>, <<"FLAGS", CR, LF, "NOOP">>}
SmallAtoms == {<<"x">>, <<OPEN, "x", SP, "y", CLOSE>>}
SmallRights == {<<>>, <<"r">>, <<"r", "l">>, <<"l", "r", "r">>, <<"l", "L">>}
SmallEntries == {<<"/a">>, <<"/", BACKSLASH>>}
SmallCapable == {<<"IMAP4rev1">>, <<"imap4rev1">>, <<"AUTH=", "PLAIN">>, <<"auth=", "PLAIN">>,
                 <<"IDLE">>}

Attr(item, data) == [item |-> item, data |-> data]
Message(n, attrs) == [message |-> n, attrs |-> attrs]
Fetched1 == Message(1, <<Attr("UID", 7), Attr("INTERNALDATE", "date"), Attr("BODY[]", None),
                         Attr("RFC822", "body"), Attr("BODY[1]", None), Attr("BODY[1]", "part")>>)
Fetched2 == Message(2, <<Attr("FLAGS", <<<<BACKSLASH, "Seen">>>>), Attr("RFC822.HEADER", "header"),
                         Attr("BODY[HEADER]", None), Attr("MODSEQ", 3),
                         Attr("FLAGS", <<<<"$Junk">>>>)>>)
Fetched3 == Message(1, <<Attr("BODY[TEXT]", None), Attr("RFC822.SIZE", 40), Attr("ENVELOPE", "env"),
                         Attr("INTERNALDATE", "no date"), Attr("X-GM-LABELS", <<"label">>)>>)

Entry(rights) == [identifier |-> "fred", rights |-> rights]
QuotaOf(root, name) ==
    [root_name |-> root, resources |-> <<[name |-> name, usage |-> 1, limit |-> 9]>>]
Item(name, v) == [name |-> name, value |-> v]

SmallData ==
    [fetch      |-> {Fetched1, Fetched2, Fetched3},
     exists     |-> {1, 2},
     recent     |-> {0, 1},
     flags      |-> {<<<<BACKSLASH, "Seen">>>>, <<<<"$Junk">>>>},
     ok         |-> {Item("UNSEEN", 2), Item("UIDNEXT", 5), Item("UIDVALIDITY", 1),
                     Item("UIDVALIDITY", 2), Item("HIGHESTMODSEQ", 6),
                     Item("PERMANENTFLAGS", <<<<BACKSLASH, "*">>, <<"$Junk">>>>),
                     Item("PERMANENTFLAGS", <<<<BACKSLASH, "Seen">>>>)},
     capability |-> {<<<<"IMAP4rev1">>, <<"auth=", "PLAIN">>>>, <<<<"IDLE">>>>},
     expunge    |-> {1, 2},
     vanished   |-> {<<[first |-> 3, last |-> 5]>>,
                     <<[first |-> 7, last |-> 8], [first |-> 1, last |-> 1],
                       [first |-> 8, last |-> 9]>>},
     list       |-> {[attributes |-> {}, delimiter |-> "/", name |-> "a"],
                     [attributes |-> {"NoSelect"}, delimiter |-> None, name |-> "b"]},
     status     |-> {[mailbox |-> m, items |-> its] :
                        m \in {<<"x">>, <<>>},
                        its \in {<<Item("MESSAGES", 0), Item("UIDNEXT", 1),
                                  Item("UIDVALIDITY", 1)>>,
                                <<Item("MESSAGES", 1), Item("UIDNEXT", 2), Item("RECENT", 1)>>,
                                <<Item("UNSEEN", 1), Item("HIGHESTMODSEQ", 3),
                                  Item("HIGHESTMODSEQ", 6)>>}},
     ids        |-> {<<>>, <<2, 1>>, <<3>>},
     acl        |-> {[mailbox |-> "a", acls |-> <<>>],
                     [mailbox |-> "a", acls |-> <<Entry(<<"l", "r">>), Entry(<<"l">>)>>]},
     listRights |-> {[mailbox |-> "a", identifier |-> "fred",
                      required |-> <<"l">>, optional |-> <<"l", "r">>]},
     myRights   |-> {[mailbox |-> "a", rights |-> <<"r", "l">>]},
     quota      |-> {QuotaOf("", <<"STORAGE">>), QuotaOf("b", <<"x">>)},
     quotaRoot  |-> {[mailbox_name |-> "a", quota_root_names |-> <<"">>]}]

SmallCodes == {None, [name |-> "READ-ONLY", value |-> 0], [name |-> "HIGHESTMODSEQ", value |-> 4],
               [name |-> "APPENDUID", value |-> [validity |-> 1, uids |-> <<5>>]]}
=============================================================================
