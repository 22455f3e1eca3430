SPECIFICATION Spec
CONSTANTS
  b1 = b1  b2 = b2  o1 = o1  p1 = p1  r1 = r1  r2 = r2  t1 = t1  t2 = t2
  Nothing = Nothing
  Contexts <- MCContexts
  Discoveries <- MCDiscoveries
  Analyses <- MCAnalyses
  Suites <- MCSuites
  Prioritizations <- MCPrioritizations
  DefectFindings <- MCDefectFindings
  HandEdits <- MCHandEdits
  l1 = l1  l2 = l2  l3 = l3  echo = echo  remark = remark
  Visits <- MCVisits
  login = login  save = save  fails = fails  notes = notes  mail = mail
  captcha = captcha  get = get  delete = delete
  ToldBy <- MCToldBy
  RequestOf <- MCRequestOf
  Features <- MCFeatures
  Addresses <- MCAddresses
  EchoText = echo
  MaxFindings = 4
  MaxFindingsPerLocation = 3
INVARIANTS
  CleanIsTraceable
  ConfirmedIsIndependent
  NothingInvented
  Answerable
  EvidenceAccounted
CHECK_DEADLOCK FALSE
