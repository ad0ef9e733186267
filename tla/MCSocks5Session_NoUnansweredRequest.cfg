\* Violation run: a client that sends its CONNECT with the method request.
CONSTANTS
    Scripts <- MCScripts
    ImmediateResults = {"Success", "DnsResolutionFailed"}
    CompletionResults = {"Success", "ConnectionRefused"}
    MaxRelay = 2
SPECIFICATION Spec
INVARIANT NoUnansweredRequest
CHECK_DEADLOCK FALSE
