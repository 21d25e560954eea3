CONSTANTS
  \* '%' '+' '-' '.' '/' '0' '2' 'e' 'h' 'm' 't' 'x'
  UriChars = {37, 43, 45, 46, 47, 48, 50, 101, 104, 109, 116, 120}
  MaxLength = 5
SPECIFICATION HandlerSpec
INVARIANTS
  DecodesRight
  
\* the reply is complete
CHECK_DEADLOCK FALSE
