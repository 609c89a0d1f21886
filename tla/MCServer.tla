------------------------------ MODULE MCServer ------------------------------
(* Requests of several callers, in both standards and every protection. *)
EXTENDS Server

Epsem(control, items, valid) ==
    [control |-> control, items |-> items, length |-> 4 * Len(items), valid |-> valid]

Ask(command, response) == [command |-> command, response |-> response]

\* Messages of a caller, as the stack builds them.
Titled(standard, title) == IF title = None THEN <<>> ELSE SetApTitle(standard, title, "A6")

Plain(standard, title, id, qualifier, epsem) ==
    SetUserInformation(
        Message(standard,
            (IF standard = "2008" THEN SetContext(standard) ELSE <<>>) \o Titled(standard, title)
                \o (IF qualifier = {} THEN <<>> ELSE SetCallingAeQualifier(standard, qualifier))
                \o SetApInvocationId(standard, id, "A8")),
        epsem, FALSE)

Secured(standard, title, id, keyId, authenticate, epsem) ==
    LET auth == IF authenticate THEN SetInitialAuthValueForAuthentication(standard, keyId)
                ELSE SetAuthValueForEncryption(standard, keyId)
        own  == SetApInvocationId(standard, id, "A8")
        message ==
            SetUserInformation(
                Message(standard,
                    SetContext(standard) \o Titled(standard, title)
                        \o SetCallingAeQualifier(standard, {"test"})
                        \o IF standard = "2006" THEN auth \o own ELSE own \o auth),
                epsem, ~authenticate)
    IN  IF authenticate THEN UpdateAuthValue(message, keyId) ELSE Encrypt(message, keyId)

\* A response of the communication module, which no server answers.
AResponse ==
    SetUserInformation(
        Message("2008",
            SetApInvocationId("2008", 3, "A4") \o Titled("2008", Relative("0d", <<1>>))
                \o SetApInvocationId("2008", 9, "A8")),
        Epsem("always", <<Ask("response", 1)>>, TRUE), FALSE)

Caller == <<5, 6>>
Long   == <<1, 2, 3, 4, 5, 6, 7, 8, 9, 10>>     \* an absolute title of 20 bytes

MCRequestMessages ==
    [ read     |-> Secured("2006", Relative("0d", Caller), 7, 0, FALSE,
                           Epsem("always", <<Ask("read", 20), Ask("response", 1), Ask("ident", 0),
                                             Ask("long ident", 1)>>, TRUE)),
      again    |-> Plain("2008", Absolute("2008", Caller), 7, {"test", "urgent"},
                         Epsem("onexception", <<Ask("read", 20), Ask("deregister", 0)>>, TRUE)),
      titleless |-> Plain("2008", None, 7, {}, Epsem("never", <<Ask("write", 1), Ask("bad write", 1)>>, TRUE)),
      largest  |-> Secured("2008", Absolute("2008", Long), 300, 1, FALSE,
                           Epsem("always", <<Ask("read", 250), Ask("offset read", 259), Ask("write", 1)>>, TRUE)),
      full     |-> Secured("2006", Absolute("2006", Caller), 8, 1, TRUE,
                           Epsem("onexception",
                                 <<Ask("deregister", 0), Ask("default read", 0), Ask("offset read", 600),
                                   Ask("read", 490), Ask("write", 1)>>, TRUE)),
      identify |-> Secured("2008", Absolute("2008", Long), 301, 1, FALSE,
                           Epsem("always", <<Ask("refused disconnect", 1), Ask("read", 500),
                                             Ask("ident", 0), Ask("disconnect", 1)>>, TRUE)),
      crowded  |-> Plain("2006", Relative("0d", Caller), 9, {},
                         Epsem("onexception", <<Ask("read", 509), Ask("write", 1)>>, TRUE)),
      foreign  |-> Secured("2008", Absolute("other", Caller), 10, 1, FALSE, Epsem("never", <<>>, FALSE)),
      keyless  |-> Secured("2008", Relative("0d", Caller), 11, 2, FALSE, Epsem("always", <<>>, TRUE)),
      response |-> AResponse ]

MCRegisteredApTitle == Relative("0d", Long)
MCConfiguredApTitle == Absolute("2008", <<4>>)

=============================================================================
