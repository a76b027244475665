SPECIFICATION HandlersSpec
CONSTANTS
  Names <- MCNames
  Configs <- MCConfigs
  handler_types = {"EchoHandler", "StatusHandler", "StaticHandler", "ReverseProxyHandler", "MemeHandler"}
  Uris <- MCUris
  Cwd <- MCCwd
  NULL = NULL
  UB = UB
  Chars <- MCChars
  Responses <- MCResponses
  NoHeader = NoHeader

INVARIANT RouteIsDefined

CHECK_DEADLOCK FALSE
