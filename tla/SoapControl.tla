----------------------------- MODULE SoapControl -----------------------------
(***************************************************************************)
(* What the control endpoints answer: the envelope is parsed, the service  *)
(* found by the namespace of the action, the profile by the User-Agent,    *)
(* the action by its name.  Every failure is a SOAP fault with status 200. *)
(***************************************************************************)
EXTENDS SoapEnvelope, BrowseTree

ContentDirectoryUrn  == "ContentDirectory"
ConnectionManagerUrn == "ConnectionManager"

\* A response other than Browse's: its out arguments that carry state.
Out(values) == [fault |-> 0, out |-> values]

\* ContentDirectoryService::dispatch.
ContentDirectoryDispatch(request, agent) ==
  CASE request.action = "Browse"                -> HandleBrowse(request.args, Match(agent))
    [] request.action = "GetSearchCapabilities" -> Out(<<>>)
    [] request.action = "GetSortCapabilities"   -> Out(<<>>)
    [] request.action = "GetSystemUpdateID"     -> Out(<<systemUpdateId>>)
    [] OTHER                                    -> Fault(InvalidAction)

\* ConnectionManagerService::dispatch: one connection, 0, that is never set up.
ConnectionManagerDispatch(request, agent) ==
  CASE request.action = "GetProtocolInfo"          -> Out(SourceFormats(Match(agent)))
    [] request.action = "GetCurrentConnectionIDs"  -> Out(<<0>>)
    [] request.action = "GetCurrentConnectionInfo" -> Out(<<>>)
    [] OTHER                                       -> Fault(InvalidAction)

\* SoapRouter::dispatch, behind dispatch_body's answer to what cannot be parsed.
\* Both endpoints serve both services.
Dispatch(request, agent) ==
  CASE request.error # NoName             -> Fault(InvalidArgs)
    [] request.urn = ContentDirectoryUrn  -> ContentDirectoryDispatch(request, agent)
    [] request.urn = ConnectionManagerUrn -> ConnectionManagerDispatch(request, agent)
    [] OTHER                              -> Fault(InvalidAction)

\* SoapRouter::dispatch_body.
Control(doc, agent) == Dispatch(Parse(doc), agent)

\* The other end of dispatch_body: a query of the catalog throws.
BackendFails == Fault(ActionFailed)
=============================================================================
