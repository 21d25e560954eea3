CONSTANTS
  MaxFile = 3
  MaxResponse = 6
SPECIFICATION ClientFairSpec

  
PROPERTIES
  EndsWithServer
