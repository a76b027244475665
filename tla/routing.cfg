SPECIFICATION HandlersSpec
CONSTANTS
  Names <- MCNames
  Configs <- MCConfigs
  handler_types = {"EchoHandler", "StatusHandler", "StaticHandler", "ReverseProxyHandler", "MemeHandler"}
  Uris <- MCUris
  Cwd <- MCCwd
  NULL = NULL
  UB = UB
  Chars <- MCChars
  Responses <- MCResponses
  NoHeader = NoHeader
INVARIANTS
  TypeOK
  NormalisedRight
  LongestPrefixWins
  TypeIsConfigured
  FreedOnce
  StaticStaysBelowRoot
  ProxyIsTransparent
  LinksRewrittenOnce

CHECK_DEADLOCK FALSE
