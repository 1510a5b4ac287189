CONSTANTS
  PAGE_SIZE = 80
  HEADER_SIZE = 16
  RESERVED = 1
  TOTAL = 3
  MAPPED = 3
  Requests <- MCRequests
SPECIFICATION Spec
INVARIANT FreeBytesUnowned
