--------------------------- MODULE MCMessageSender ---------------------------
(* Messages of one segment and of several, in both standards. *)
EXTENDS MessageSender

Body(length) == [length |-> length, valid |-> TRUE]

Request(standard, called, sender, length) ==
    SetUserInformation(
        Message(standard,
            (IF standard = "2008" THEN SetContext(standard) ELSE <<>>)
                \o SetApTitle(standard, called, "A2") \o SetApTitle(standard, sender, "A6")
                \o SetCallingAeQualifier(standard, {"test"})
                \o SetApInvocationId(standard, 700, "A8")),
        Body(length), FALSE)

Short == Relative("0d", <<4>>)
Long  == Relative("0d", <<1, 2, 3, 4, 5, 6, 7, 8, 9, 10, 11, 12, 13, 14, 15, 16, 17, 18>>)

MCOutgoing ==
    [ small |-> Request("2006", Short, Short, 20),
      old   |-> Request("2006", Short, Long, 260),
      new   |-> Request("2008", Short, Short, 140),
      large |-> Request("2008", Long, Long, 300) ]

=============================================================================
