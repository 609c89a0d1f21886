----------------------------- MODULE AcseMessage -----------------------------
(***************************************************************************)
(* ACSE messages, as acsemsg.c builds, recognizes and reads them.  A message *)
(* is its standard ("2006" or "2008") and its elements in order; an element  *)
(* is its tag, the length of its content and what the content says.         *)
(*                                                                         *)
(* A message authentication code is the sequence of the parts it covers, and *)
(* what is encrypted is marked with the key: two codes agree only over the   *)
(* same parts, and only the same key opens what another sealed.             *)
(***************************************************************************)
EXTENDS ApTitle

Element(tag, length, value) == [tag |-> tag, length |-> length, value |-> value]
Message(standard, elements) == [standard |-> standard, elements |-> elements]

NoNumber == 0 - 1

\* C1222Misc_GetSizeOfLengthEncoding, of a length below 65536.
SizeOfLength(n) == IF n < 128 THEN 1 ELSE IF n < 256 THEN 2 ELSE 3

Encoded(n) == 1 + SizeOfLength(n) + n

\* A sum, by a recursive function that a proof can unfold.
Total(numbers) ==
    LET sum[n \in 0..Len(numbers)] == IF n = 0 THEN 0 ELSE sum[n - 1] + numbers[n]
    IN  sum[Len(numbers)]

\* The length of a message, and with the 60 and the length before it.
LengthOf(elements) == Total([i \in 1..Len(elements) |-> Encoded(elements[i].length)])
FullLength(m)      == Encoded(LengthOf(m.elements))

-----------------------------------------------------------------------------
\* FindACSETag and the readers built on it.
HasTag(m, tag) == \E i \in DOMAIN m.elements : m.elements[i].tag = tag

Find(m, tag) == m.elements[SelectInSeq(m.elements, LAMBDA e : e.tag = tag)]

Value(m, tag, default) == IF HasTag(m, tag) THEN Find(m, tag).value ELSE default

CalledApTitle(m)         == Value(m, "A2", None)
CallingApTitle(m)        == Value(m, "A6", None)
CallingAeQualifier(m)    == Value(m, "A7", [standard |-> m.standard, qualifier |-> {}]).qualifier
CalledApInvocationId(m)  == Value(m, "A4", [id |-> NoNumber]).id
CallingApInvocationId(m) == Value(m, "A8", [id |-> NoNumber]).id

\* ACSE_Message_IsResponse.
IsResponse(m) == HasTag(m, "A4")

-----------------------------------------------------------------------------
\* The builders: each adds an element to the message of a standard.
SetContext(standard) == <<Element("A1", IF standard = "2006" THEN 7 ELSE 9, standard)>>

SetApTitle(standard, t, tag) ==
    <<Element(tag, EncodedLength(t),
              IF standard = "2008" /\ t.tag = "0d" THEN [t EXCEPT !.tag = "80"] ELSE t)>>

SetApInvocationId(standard, id, tag) ==
    <<Element(tag, IF standard = "2006" THEN 2 ELSE IF id < 256 THEN 3 ELSE 4, [id |-> id])>>

SetCallingAeQualifier(standard, qualByte) ==
    <<Element("A7", 3, [standard |-> standard, qualifier |-> qualByte])>>

\* SetAuthValueForEncryption and SetInitialAuthValueForAuthentication, with an
\* initialization vector of four bytes.  The token, a sequence of at most one,
\* is filled in when the message is complete.
SetAuthValue(standard, keyId, token) ==
    <<Element("AC",
              (IF standard = "2006" THEN 6 ELSE 12) + (IF keyId = 0 THEN 0 ELSE 3)
                  + 10 * Len(token),
              [standard |-> standard, keyId |-> keyId, token |-> token])>>

SetAuthValueForEncryption(standard, keyId) == SetAuthValue(standard, keyId, <<>>)

SetInitialAuthValueForAuthentication(standard, keyId) ==
    SetAuthValue(standard, keyId, <<[sealedWith |-> NoNumber, info |-> <<>>]>>)

-----------------------------------------------------------------------------
\* The message authentication codes.  In the 2008 standard the title is covered
\* in its absolute form (AddCallingApTitleToCRC2008); in 2006 as it was sent.
CoveredApTitle(m) ==
    IF CallingApTitle(m) = None THEN <<>>
    ELSE IF m.standard = "2006" THEN <<CallingApTitle(m)>>
    ELSE <<MakeAbsoluteFrom(CallingApTitle(m), "2008")>>

\* What an AE qualifier and an invocation id add.  The 2008 standard skips the
\* tag and the length in front of them, and an element that is too long or short.
CoveredNumbers(m) ==
    (IF HasTag(m, "A7") THEN <<CallingAeQualifier(m)>> ELSE <<>>)
        \o (IF HasTag(m, "A8") THEN <<CallingApInvocationId(m)>> ELSE <<>>)

\* The code over some start and the calling information of a message.
Mac(m, start) ==
    IF m.standard = "2006"
    THEN <<start>> \o CoveredApTitle(m) \o CoveredNumbers(m)
    ELSE <<start>> \o CoveredNumbers(m) \o CoveredApTitle(m)

\* The code without the title, which a receiver accepts as well.
MacWithoutApTitle(m, start) == <<start>> \o CoveredNumbers(m)

\* A code that a receiver accepts.
MacIsRight(m, start, mac) == mac \in {Mac(m, start), MacWithoutApTitle(m, start)}

-----------------------------------------------------------------------------
\* ACSE_Message_SetUserInformation: the epsem, padded to eight bytes with its
\* code when it is to be encrypted.
Padded(length) == IF length % 8 = 0 THEN length ELSE length + (8 - (length % 8))

ContentLength(epsem, wantMac) ==
    IF wantMac THEN Padded(epsem.length + 3) ELSE epsem.length + 1

InformationLength(m, content) ==
    IF m.standard = "2006" THEN content ELSE Encoded(Encoded(content))

\* Whether it refuses, before it knows the length.
UserInformationFits(m, epsem, maxLength) ==
    epsem.length + (IF m.standard = "2006" THEN 20 ELSE 26) + LengthOf(m.elements) <= maxLength

SetUserInformation(m, epsem, wantMac) ==
    [m EXCEPT !.elements = Append(@, Element("BE", InformationLength(m, ContentLength(epsem, wantMac)),
                   [standard |-> m.standard, epsem |-> epsem, sealedWith |-> NoNumber,
                    mac |-> IF wantMac THEN Mac(m, epsem) ELSE <<>>]))]

\* ACSE_Message_Encrypt and ACSE_Message_UpdateAuthValueForAuthentication.
Replace(m, tag, value) ==
    [m EXCEPT !.elements =
        [i \in DOMAIN @ |-> IF @[i].tag = tag THEN [@[i] EXCEPT !.value = value] ELSE @[i]]]

Encrypt(m, key) == Replace(m, "BE", [Find(m, "BE").value EXCEPT !.sealedWith = key])

TokenStart(m) == <<"random header", Find(m, "BE").value.epsem>>

UpdateAuthValue(m, key) ==
    Replace(m, "AC", [Find(m, "AC").value EXCEPT !.token =
                         <<[sealedWith |-> key, info |-> Mac(m, TokenStart(m))]>>])

=============================================================================
