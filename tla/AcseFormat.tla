------------------------------ MODULE AcseFormat ------------------------------
(***************************************************************************)
(* How a node recognizes the ACSE messages it receives: the standard, the   *)
(* format, segments, and whether it can be decrypted or authenticated.       *)
(***************************************************************************)
EXTENDS AcseMessage

Place(order, tag) == SelectInSeq(order, LAMBDA t : t = tag)

\* BufferTagOrderOK: the elements are in the order of a list, none twice.
TagOrderOK(m, order) ==
    \A i \in DOMAIN m.elements :
        /\ m.elements[i].tag \in ToSet(order)
        /\ i > 1 => Place(order, m.elements[i - 1].tag) < Place(order, m.elements[i].tag)

tagOrder2006    == <<"A1", "A2", "A6", "A7", "AB", "AC", "A4", "A8", "BE">>
tagOrderAlt2006 == <<"A1", "A2", "A6", "A7", "AB", "A4", "A8", "AC", "BE">>
tagOrder2008    == <<"A1", "A2", "A3", "A4", "A6", "A7", "A8", "8B", "AC", "BE">>

\* What both standards ask of the elements they share.
SharedElementsOK(m, standard) ==
    /\ HasTag(m, "A8") /\ HasTag(m, "BE")
    /\ Value(m, "A1", standard) = standard
    /\ \A tag \in {"A2", "A6"} :
          HasTag(m, tag) => ValidateACSEFormat(Find(m, tag).value, standard)
    /\ HasTag(m, "A7") => Find(m, "A7").value.standard = standard

-----------------------------------------------------------------------------
\* ACSE_Message_IsEncrypted and ACSE_Message_IsAuthenticated.
UsesC1222Encryption(m) ==
    \A tag \in {"AB", "8B"} : HasTag(m, tag) => Find(m, tag).value = "C12.22"

IsEncryptedOrAuthenticated(m) == HasTag(m, "AC") /\ UsesC1222Encryption(m)

IsAuthenticated(m) == IsEncryptedOrAuthenticated(m) /\ Find(m, "AC").value.token # <<>>
IsEncrypted(m)     == IsEncryptedOrAuthenticated(m) /\ Find(m, "AC").value.token = <<>>

\* An authentication value, and the information of a whole message, in the
\* format of a standard.  What is encrypted is not looked at yet.
ValidAuthenticationValue(m, standard) ==
    HasTag(m, "AC") => UsesC1222Encryption(m) /\ Find(m, "AC").value.standard = standard

ValidInformationValue(m, standard) ==
    /\ Find(m, "BE").value.standard = standard
    /\ IsEncrypted(m) \/ Find(m, "BE").value.epsem.valid

-----------------------------------------------------------------------------
\* IsSegmentedFormat2006 and IsSegmentedFormat2008.
IsSegmented2006(m) == HasTag(m, "A8") /\ Find(m, "A8").length \in {4, 6}
IsSegmented2008(m) == HasTag(m, "A3")

IsSegmented(m) == IF m.standard = "2006" THEN IsSegmented2006(m) ELSE IsSegmented2008(m)

\* ACSE_Message_CheckFormat2006, whatever the reason it gives.
IsValidFormat2006(m) ==
    /\ TagOrderOK(m, tagOrder2006) \/ TagOrderOK(m, tagOrderAlt2006)
    /\ SharedElementsOK(m, "2006")
    /\ \/ /\ IsSegmented2006(m)
          /\ \A tag \in {"A4", "AB", "AC"} : ~HasTag(m, tag)
       \/ /\ ~IsSegmented2006(m)
          /\ \A tag \in {"A4", "A8"} : HasTag(m, tag) => Find(m, tag).length \in 1..2
          /\ ValidAuthenticationValue(m, "2006")
          /\ ValidInformationValue(m, "2006")

\* ACSE_Message_CheckFormat2008.  The content of a segment is not checked.
IsValidFormat2008(m) ==
    /\ TagOrderOK(m, tagOrder2008)
    /\ SharedElementsOK(m, "2008")
    /\ \/ /\ IsSegmented2008(m)
          /\ Find(m, "A3").length \in 3..4
          /\ \A tag \in {"A4", "8B", "AC"} : ~HasTag(m, tag)
       \/ /\ ~IsSegmented2008(m)
          /\ \A tag \in {"A4", "A8"} : HasTag(m, tag) => Find(m, tag).length \in 3..4
          /\ ValidAuthenticationValue(m, "2008")
          /\ ValidInformationValue(m, "2008")

\* An A8 that starts with 02 01 or 02 02, as the 2008 standard writes an id.  A
\* segment of 2006 with a length of 4 has its id, offset and full length there: it
\* starts with 02 02 if the id is 0x0202.
StartsAs2008(e) ==
    /\ e.length \in {3, 4}
    /\ "offset" \in DOMAIN e.value => e.value.id = 514

\* ACSE_Message_IsMarch2006FormatMessage.  The 28 that starts a BE of 2008 is told
\* by its standard: an epsem of 2006 starts with a byte of 128 or more, and where
\* its encrypted form or a segment starts with 28, the A8 tells (but for id 0x0202).
IsMarch2006FormatMessage(m) ==
    /\ ~HasTag(m, "A3")
    /\ \/ HasTag(m, "BE") /\ Find(m, "BE").value.standard = "2006"
       \/ /\ HasTag(m, "A8")
          /\ StartsAs2008(Find(m, "A8")) => ~IsValidFormat2008(m)

\* The standard TLMessageReceived takes a message to be of: "none" when it
\* ignores it.
StandardOf(m) ==
    IF IsMarch2006FormatMessage(m) /\ IsValidFormat2006(m) THEN "2006"
    ELSE IF IsValidFormat2008(m) THEN "2008"
    ELSE "none"

Recognized(m) == [m EXCEPT !.standard = StandardOf(m)]

\* ACSE_Message_GetSegmentOffset.
SegmentOffset(m) ==
    IF m.standard = "2006" THEN Find(m, "A8").value.offset ELSE Find(m, "BE").value.offset

SegmentFullLength(m) ==
    IF m.standard = "2006" THEN Find(m, "A8").value.fullLength ELSE Find(m, "A3").value

-----------------------------------------------------------------------------
\* ACSE_Message_Decrypt and ACSE_Message_Authenticate, with the key the message
\* names, if this node has it.
Key(m) == Find(m, "AC").value.keyId

Decrypts(m, keys) ==
    /\ Key(m) \in keys
    /\ Find(m, "BE").value.sealedWith = Key(m)
    /\ MacIsRight(m, Find(m, "BE").value.epsem, Find(m, "BE").value.mac)

Authenticates(m, keys) ==
    LET token == Find(m, "AC").value.token[1]
    IN  /\ Key(m) \in keys
        /\ token.sealedWith = Key(m)
        /\ MacIsRight(m, TokenStart(m), token.info)

\* What TLMessageReceived asks of a whole message.
IsSecure(m, keys) ==
    /\ IsEncrypted(m) => Decrypts(m, keys)
    /\ IsAuthenticated(m) => Authenticates(m, keys)

=============================================================================
