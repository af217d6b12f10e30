SPECIFICATION Spec
CONSTANTS
  Parts <- MCParts
  Nil = ""
  Small <- MCSmall
  Usernames <- MCUsernames
  Domains <- MCDomains
  Typed <- MCTyped
  box = box
  noDir = noDir
  Dirs = {box}
  NoDir = noDir
  Kinds = {"maildir"}
  Rest = {1}
  Entries <- MCEntries
  MaxAccounts = 2
  Infos = {1}
  DomainFiles <- MCDomainFiles
  NoUser = NoUser
  Idle = Idle
INVARIANTS TypeOK AddressFindsItsAccount ListAndGetAgree ListIsTrue
